---------------------------- MODULE Spec2Model ----------------------------
(***************************************************************************)
(* WanWatcher: the span detector of net_quality_report.py, the traceroute  *)
(* hop parser of net_traceroute_logger.py and the route numbering of       *)
(* net_trace_view.py.                                                      *)
(*                                                                         *)
(* Conventions.                                                            *)
(*  - A nullable number (Python None, or the NaN pandas stores for a       *)
(*    missing value) is a sequence of length 0; a present number v is <<v>>.*)
(*  - Times are integers in half seconds and sample timestamps are even,   *)
(*    so the median of the sample gaps (the mean of two even gaps when     *)
(*    their count is even) is again an integer.                            *)
(*  - Text is a sequence of one-character strings.                         *)
(***************************************************************************)
EXTENDS Integers, Sequences, FiniteSets, TLC

\* ------------------------------------------------------------------ bounds
\* Rows of net_metrics loaded for one report.
MaxRows == 4
\* Pieces of tool output one captured text is made of.
MaxTokens == 5
\* Traceroute runs stored before the history is analysed.
MaxRuns == 3
\* Samples of net_metrics in the window of one full analysis.
MaxSamples == 3
\* Iterations of the traceroute logger's loop.
MaxIterations == 2

VARIABLES
    rows,           \* quality report: the loaded frame, rows [ts, val] in ts order
    max_gap_mult,   \* quality report: --max-gap-mult of the run
    report,         \* quality report: what main() computed, [done |-> FALSE] before
    text,           \* traceroute logger: the output run_traceroute captured
    ntok,           \* traceroute logger: the pieces the tool has written so far
    parse,          \* traceroute logger: what parse_hops did, [done |-> FALSE] before
    trace_runs,     \* traceroute store: the rows of table trace_runs, in insertion order
    trace_hops,     \* traceroute store: the rows of table trace_hops, in insertion order
    trace_seq,      \* traceroute store: the last id AUTOINCREMENT gave out
    view,           \* trace view: what main() computed and printed, [done |-> FALSE] before
    window,         \* quality analysis: the loaded frame with its three metrics
    analysis,       \* quality analysis: what main() produced, [done |-> FALSE] before
    clock,          \* traceroute logger: now_utc_iso() of the latest run, 0 before
    loop            \* traceroute logger: the loop of main(), its options and last iteration

vars == <<rows, max_gap_mult, report, text, ntok, parse,
          trace_runs, trace_hops, trace_seq, view, window, analysis, clock, loop>>
spanVars == <<rows, max_gap_mult, report>>
parseVars == <<text, ntok, parse>>
routeVars == <<trace_runs, trace_hops, trace_seq, view>>
windowVars == <<window, analysis>>
loggerVars == <<clock, loop>>

\* ------------------------------------------------------------ small helpers
NaN == <<>>
Num(v) == <<v>>
IsNum(x) == Len(x) = 1
Val(x) == x[1]

\* Python's float comparisons: every comparison with NaN is false.
NumLt(a, b) == IsNum(a) /\ IsNum(b) /\ Val(a) < Val(b)
NumGt(a, b) == NumLt(b, a)
NumEq(a, b) == IsNum(a) /\ IsNum(b) /\ Val(a) = Val(b)
NumGe(a, b) == IsNum(a) /\ IsNum(b) /\ Val(a) >= Val(b)

\* Python's `x or 0` for a float: 0 when x is 0 (falsy); NaN is truthy and stays.
OrZero(x) == IF IsNum(x) /\ Val(x) = 0 THEN Num(0) ELSE x

\* Python's truth value of a float: false only for 0.
Truthy(x) == ~(IsNum(x) /\ Val(x) = 0)

\* Python's max(a, b): a, unless b > a.
PyMax(a, b) == IF NumGt(b, a) THEN b ELSE a

\* ------------------------------------------------- net_quality_report.py
\* The values a sample's metric takes (ms, or %), NaN when the probe failed,
\* and the gaps between consecutive samples.
MetricValues == {NaN, Num(1), Num(2), Num(3)}
SampleGaps == {0, 2, 8}
GapMults == {0, 1, 3}

\* --latency-ms / --jitter-ms / --loss-pct of the run, in the units of MetricValues.
Threshold == Num(2)

\* Mutant of HighFlag: a missing value counts as high.
HighFlag_MissingFlagged(val) == ~NumLt(val, Threshold)

\* df["high_x"] = df[x] >= threshold: NaN compares false.
HighFlag(val) == NumGe(val, Threshold)

\* df["gap_s"] = df["ts"].diff(): the first row's gap is NaN and dropped by median().
GapSeq(rs) == [i \in 1..(Len(rs) - 1) |-> rs[i + 1].ts - rs[i].ts]

RECURSIVE InsertAsc(_, _)
InsertAsc(x, s) ==
    IF s = <<>> THEN <<x>>
    ELSE IF x < Head(s) THEN <<x>> \o s
    ELSE <<Head(s)>> \o InsertAsc(x, Tail(s))

RECURSIVE SortAsc(_)
SortAsc(s) == IF s = <<>> THEN <<>> ELSE InsertAsc(Head(s), SortAsc(Tail(s)))

\* Series.median(): NaN for no values, the middle one, or the mean of the two middle ones.
Median(s) ==
    LET n == Len(s)
        o == SortAsc(s)
    IN  IF n = 0 THEN NaN
        ELSE IF n % 2 = 1 THEN Num(o[(n + 1) \div 2])
        ELSE Num((o[n \div 2] + o[n \div 2 + 1]) \div 2)

MedianGap(rs) == Median(GapSeq(rs))

\* max_gap = (median_gap or 0) * max_gap_mult; NaN * anything is NaN.
MaxGap(median_gap, mult) ==
    LET m == OrZero(median_gap)
    IN  IF IsNum(m) THEN Num(Val(m) * mult) ELSE NaN

\* Mutant of NewSpan: the first sample of a span is not counted.
NewSpan_CountFromZero(ts, val) == [start |-> ts, end |-> ts, max |-> val, samples |-> 0]

\* current = {"start": ts, "end": ts, "max": val, "samples": 1}
NewSpan(ts, val) == [start |-> ts, end |-> ts, max |-> val, samples |-> 1]

\* The walk's state: the closed spans and the open one (<<>> for None).
WalkStart == [spans |-> <<>>, current |-> <<>>]

\* Mutant of StepUnflagged: the span is recorded but `current = None` is forgotten.
StepUnflagged_KeepOpen(acc) ==
    IF acc.current # <<>>
    THEN [spans |-> Append(acc.spans, acc.current[1]), current |-> acc.current]
    ELSE acc

\* Mutant of StepUnflagged: an unflagged row is skipped, the span stays open.
StepUnflagged_Skipped(acc) == acc

\* An unflagged row closes the open span.
StepUnflagged(acc) ==
    IF acc.current # <<>>
    THEN [spans |-> Append(acc.spans, acc.current[1]), current |-> <<>>]
    ELSE acc

\* Mutant of SplitsOnGap: a gap equal to max_gap splits too.
SplitsOnGap_AtMaxGap(max_gap, gap) == Truthy(max_gap) /\ NumGe(Num(gap), max_gap)

\* A flagged row when a span is open: split on a gap above max_gap, else extend.
SplitsOnGap(max_gap, gap) == Truthy(max_gap) /\ NumGt(Num(gap), max_gap)

\* Mutant of ExtendSpan: the peak stays the first sample's value.
ExtendSpan_PeakNotUpdated(cur, ts, val) ==
    [cur EXCEPT !.end = ts, !.samples = @ + 1]

ExtendSpan(cur, ts, val) ==
    [cur EXCEPT !.end = ts, !.samples = @ + 1, !.max = PyMax(@, val)]

StepFlagged(acc, ts, val, max_gap) ==
    IF acc.current = <<>>
    THEN [acc EXCEPT !.current = <<NewSpan(ts, val)>>]
    ELSE LET cur == acc.current[1]
             gap == ts - cur.end
         IN  IF SplitsOnGap(max_gap, gap)
             THEN [spans |-> Append(acc.spans, cur), current |-> <<NewSpan(ts, val)>>]
             ELSE [acc EXCEPT !.current = <<ExtendSpan(cur, ts, val)>>]

RECURSIVE Walk(_, _, _, _)
Walk(rs, i, acc, max_gap) ==
    IF i > Len(rs) THEN acc
    ELSE LET r == rs[i]
         IN  Walk(rs, i + 1,
                  IF HighFlag(r.val) THEN StepFlagged(acc, r.ts, r.val, max_gap)
                  ELSE StepUnflagged(acc),
                  max_gap)

\* Mutant of CloseAtEnd: the span still open at the end of the input is dropped.
CloseAtEnd_Dropped(acc) == acc.spans

\* if current: spans.append(current)
CloseAtEnd(acc) ==
    IF acc.current # <<>> THEN Append(acc.spans, acc.current[1]) ELSE acc.spans

\* The spans in the order the walk created them, before durations and the sort.
BuiltSpans(rs, median_gap, mult) ==
    CloseAtEnd(Walk(rs, 1, WalkStart, MaxGap(median_gap, mult)))

\* span["duration_s"] = dur if dur > 0 else (median_gap or 0)
Duration(span, median_gap) ==
    LET dur == span.end - span.start
    IN  IF dur > 0 THEN Num(dur) ELSE OrZero(median_gap)

WithDuration(span, median_gap) ==
    [start |-> span.start, end |-> span.end, max |-> span.max,
     samples |-> span.samples, duration_s |-> Duration(span, median_gap)]

\* Mutant of KeyLess: the sort key is the duration alone.
KeyLess_DurationOnly(a, b) == NumLt(a.duration_s, b.duration_s)

\* key=lambda s: (s["max"] if s["max"] is not None else 0, s["duration_s"]);
\* the walk never leaves None in "max" (value_col is a column of the frame).
\* Python's tuple order: the first unequal position decides.
KeyLess(a, b) ==
    IF NumEq(a.max, b.max) THEN NumLt(a.duration_s, b.duration_s)
    ELSE NumLt(a.max, b.max)

\* spans.sort(key=..., reverse=True): stable, greatest key first.
RECURSIVE InsertDesc(_, _)
InsertDesc(x, s) ==
    IF s = <<>> THEN <<x>>
    ELSE IF KeyLess(Head(s), x) THEN <<x>> \o s
    ELSE <<Head(s)>> \o InsertDesc(x, Tail(s))

RECURSIVE SortSpansFrom(_, _, _)
SortSpansFrom(s, i, acc) ==
    IF i > Len(s) THEN acc ELSE SortSpansFrom(s, i + 1, InsertDesc(s[i], acc))

SortSpans(s) == SortSpansFrom(s, 1, <<>>)

find_spans(rs, median_gap, mult) ==
    IF rs = <<>> THEN <<>>
    ELSE LET built == BuiltSpans(rs, median_gap, mult)
         IN  SortSpans([i \in 1..Len(built) |-> WithDuration(built[i], median_gap)])

\* ------------------------------------------------ net_traceroute_logger.py
\* Python's None is <<>> and a present value x is <<x>>.
None == <<>>
Some(x) == <<x>>

IsDigit(c) == c \in {"0", "1", "2", "3", "4", "5", "6", "7", "8", "9"}
\* Whitespace and line breaks, among the characters the model's texts are made of.
IsSpace(c) == c \in {" ", "\t", "\n"}
IsLineBreak(c) == c = "\n"

\* The character classes of the patterns: \s, \d, \S, [^\]], [^)] and "not a dot".
InClass(cls, c) ==
    CASE cls = "space" -> IsSpace(c)
      [] cls = "digit" -> IsDigit(c)
      [] cls = "nonspace" -> ~IsSpace(c)
      [] cls = "notbracket" -> c # "]"
      [] cls = "notparen" -> c # ")"
      [] cls = "notdot" -> c # "."

DigitVal(c) ==
    CASE c = "0" -> 0 [] c = "1" -> 1 [] c = "2" -> 2 [] c = "3" -> 3 [] c = "4" -> 4
      [] c = "5" -> 5 [] c = "6" -> 6 [] c = "7" -> 7 [] c = "8" -> 8 [] c = "9" -> 9

\* str.lower() on the letters of the model's alphabet.
Lower(c) ==
    CASE c = "T" -> "t" [] c = "I" -> "i" [] c = "M" -> "m" [] c = "E" -> "e"
      [] c = "D" -> "d" [] c = "O" -> "o" [] c = "U" -> "u" [] c = "S" -> "s"
      [] OTHER -> c

LowerText(s) == [i \in 1..Len(s) |-> Lower(s[i])]

\* The first position >= p of s whose character is not in class cls, Len(s) + 1 if none:
\* where a greedy \s*, \d+ or [^x]+ that starts at p stops.
FirstNotIn(s, p, cls) ==
    LET out == {i \in p..Len(s) : ~InClass(cls, s[i])}
    IN  IF out = {} THEN Len(s) + 1 ELSE CHOOSE i \in out : \A j \in out : i <= j

\* sub in text, as Python's `in` on strings.
Contains(s, sub) ==
    \E p \in 1..(Len(s) - Len(sub) + 1) : \A k \in 1..Len(sub) : s[p + k - 1] = sub[k]

\* str.splitlines(): the pieces between line breaks; no empty last line.
SplitLines(t) ==
    LET brk == {i \in 1..Len(t) : IsLineBreak(t[i])}
        n == Cardinality(brk) + (IF t # <<>> /\ Len(t) \notin brk THEN 1 ELSE 0)
        Kth(k) == CHOOSE b \in brk : Cardinality({x \in brk : x < b}) = k - 1
        From(k) == IF k = 1 THEN 1 ELSE Kth(k - 1) + 1
        To(k) == IF k <= Cardinality(brk) THEN Kth(k) - 1 ELSE Len(t)
    IN  [k \in 1..n |-> SubSeq(t, From(k), To(k))]

\* str.strip() and str.split().
Strip(s) ==
    LET ink == {i \in 1..Len(s) : ~IsSpace(s[i])}
    IN  IF ink = {} THEN <<>>
        ELSE SubSeq(s, CHOOSE i \in ink : \A j \in ink : i <= j,
                       CHOOSE i \in ink : \A j \in ink : i >= j)

RECURSIVE SplitFrom(_, _)
SplitFrom(s, p) ==
    LET a == FirstNotIn(s, p, "space")
    IN  IF a > Len(s) THEN <<>>
        ELSE LET b == FirstNotIn(s, a, "nonspace")
             IN  <<SubSeq(s, a, b - 1)>> \o SplitFrom(s, b)

Split(s) == SplitFrom(s, 1)

\* " ".join(parts)
RECURSIVE JoinSpace(_)
JoinSpace(parts) ==
    IF parts = <<>> THEN <<>>
    ELSE IF Len(parts) = 1 THEN parts[1]
    ELSE parts[1] \o <<" ">> \o JoinSpace(Tail(parts))

\* CPython's default sys.int_info.default_max_str_digits: int() of a longer digit
\* string raises ValueError.
IntMaxStrDigits == 4300

\* The value of a digit string (int(), and the digits of float()).
RECURSIVE IntOf(_)
IntOf(ds) ==
    IF ds = <<>> THEN 0 ELSE IntOf(SubSeq(ds, 1, Len(ds) - 1)) * 10 + DigitVal(ds[Len(ds)])

\* Mutant of HopMatch: the pattern written ^\s*(\d)+\s+, whose group keeps only
\* the last digit of the number.
HopMatch_LastDigitGroup(line) ==
    LET a == FirstNotIn(line, 1, "space")
        b == FirstNotIn(line, a, "digit")
    IN  IF b > a /\ b <= Len(line) /\ IsSpace(line[b]) THEN Some(SubSeq(line, b - 1, b - 1))
        ELSE None

\* re.match(r"^\s*(\d+)\s+", line): <<>> for no match, else <<group 1>>.
HopMatch(line) ==
    LET a == FirstNotIn(line, 1, "space")
        b == FirstNotIn(line, a, "digit")
    IN  IF b > a /\ b <= Len(line) /\ IsSpace(line[b]) THEN Some(SubSeq(line, a, b - 1))
        ELSE None

\* A float read from text is n / 10^d.
Float(n, d) == [n |-> n, d |-> d]

RECURSIVE Pow10(_)
Pow10(k) == IF k = 0 THEN 1 ELSE 10 * Pow10(k - 1)

\* max(val * 0.5, 0.1)
HalfFloored(val) ==
    IF Pow10(val.d) > 5 * val.n THEN Float(1, 1) ELSE Float(5 * val.n, val.d + 1)

\* One match of _RTT_RE, (<)?(\d+(?:\.\d+)?)\s*ms with IGNORECASE, tried at p:
\* <<>> for no match, else <<[end, val]>>, end the position after the match.
RttMatchAt(s, p) ==
    LET lt == p <= Len(s) /\ s[p] = "<"
        a == IF lt THEN p + 1 ELSE p
        b == FirstNotIn(s, a, "digit")
        frac == b + 1 <= Len(s) /\ s[b] = "." /\ IsDigit(s[b + 1])
        c == IF frac THEN FirstNotIn(s, b + 1, "digit") ELSE b
        UnitAt(w) == w + 1 <= Len(s) /\ Lower(s[w]) = "m" /\ Lower(s[w + 1]) = "s"
        w1 == FirstNotIn(s, c, "space")
        raw == IF frac
               THEN Float(IntOf(SubSeq(s, a, b - 1) \o SubSeq(s, b + 1, c - 1)), c - b - 1)
               ELSE Float(IntOf(SubSeq(s, a, b - 1)), 0)
    IN  IF b > a /\ UnitAt(w1)
        THEN Some([end |-> w1 + 2, val |-> IF lt THEN HalfFloored(raw) ELSE raw])
        ELSE None

\* _parse_rtts: the values of the non-overlapping matches, left to right.
RECURSIVE RttsFrom(_, _)
RttsFrom(s, p) ==
    IF p > Len(s) THEN <<>>
    ELSE LET m == RttMatchAt(s, p)
         IN  IF m # None THEN <<m[1].val>> \o RttsFrom(s, m[1].end)
             ELSE RttsFrom(s, p + 1)

parse_rtts(line) == RttsFrom(line, 1)

\* A string, None when it is empty: `host if host else None`.
NoneIfEmpty(s) == IF s = <<>> THEN None ELSE Some(s)

strip_hop_prefix(prefix) ==
    LET parts == Split(prefix)
    IN  IF Len(parts) <= 1 THEN None ELSE NoneIfEmpty(JoinSpace(Tail(parts)))

\* prefix.rfind(" ms"): the last position where " ms" starts, 0 for -1.
RFindMs(s) ==
    LET at == {p \in 1..(Len(s) - 2) : s[p] = " " /\ s[p + 1] = "m" /\ s[p + 2] = "s"}
    IN  IF at = {} THEN 0 ELSE CHOOSE p \in at : \A q \in at : p >= q

\* Mutant of host_from_tail: the hop number is removed, whatever the prefix holds.
host_from_tail_NoMsRule(prefix) == strip_hop_prefix(prefix)

host_from_tail(prefix) ==
    LET idx == RFindMs(prefix)
    IN  IF idx # 0 THEN NoneIfEmpty(Strip(SubSeq(prefix, idx + 3, Len(prefix))))
        ELSE strip_hop_prefix(prefix)

\* re.search(r"\[(?P<ip>[^\]]+)\]\s*$", line): the leftmost "[" whose first "]"
\* is at least two further and is followed by whitespace only; 0 for no match.
BracketAt(line) ==
    LET ok == {p \in 1..Len(line) :
                  /\ line[p] = "["
                  /\ LET q == FirstNotIn(line, p + 1, "notbracket")
                     IN  q >= p + 2 /\ q <= Len(line)
                         /\ FirstNotIn(line, q + 1, "space") > Len(line)}
    IN  IF ok = {} THEN 0 ELSE CHOOSE p \in ok : \A r \in ok : p <= r

\* re.search(r"\((?P<ip>[^)]+)\)", line): the leftmost "(" whose first ")" is at
\* least two further; 0 for no match.
ParenAt(line) ==
    LET ok == {p \in 1..Len(line) :
                  /\ line[p] = "("
                  /\ LET q == FirstNotIn(line, p + 1, "notparen")
                     IN  q >= p + 2 /\ q <= Len(line)}
    IN  IF ok = {} THEN 0 ELSE CHOOSE p \in ok : \A r \in ok : p <= r

\* s.split(".")
RECURSIVE SplitDots(_)
SplitDots(s) ==
    LET d == FirstNotIn(s, 1, "notdot")
    IN  IF d > Len(s) THEN <<s>>
        ELSE <<SubSeq(s, 1, d - 1)>> \o SplitDots(SubSeq(s, d + 1, Len(s)))

\* ipaddress.ip_address(tok) does not raise ValueError. An IPv4 literal is four
\* decimal octets, at most 255, without leading zeros; an IPv6 literal needs a
\* ":", which no text of this model contains.
ValidIpAddress(tok) ==
    LET parts == SplitDots(tok)
    IN  /\ Len(parts) = 4
        /\ \A k \in 1..4 :
              /\ parts[k] # <<>>
              /\ Len(parts[k]) <= 3
              /\ \A i \in 1..Len(parts[k]) : IsDigit(parts[k][i])
              /\ (Len(parts[k]) > 1 => parts[k][1] # "0")
              /\ IntOf(parts[k]) <= 255

\* for tok in re.split(r"\s+", line.strip()): the first token that is an address;
\* the ValueError of every other token is caught.
RECURSIVE FirstAddress(_, _)
FirstAddress(toks, i) ==
    IF i > Len(toks) THEN None
    ELSE IF ValidIpAddress(toks[i]) THEN Some(toks[i])
    ELSE FirstAddress(toks, i + 1)

\* Mutant of parse_host_ip: the parenthesized token is tried before the bracket.
parse_host_ip_ParenFirst(line) ==
    LET b == BracketAt(line)
        p == ParenAt(line)
    IN  IF p # 0
        THEN [host |-> strip_hop_prefix(Strip(SubSeq(line, 1, p - 1))),
              ip |-> Some(Strip(SubSeq(line, p + 1,
                                       FirstNotIn(line, p + 1, "notparen") - 1)))]
        ELSE IF b # 0
        THEN [host |-> host_from_tail(Strip(SubSeq(line, 1, b - 1))),
              ip |-> Some(Strip(SubSeq(line, b + 1,
                                       FirstNotIn(line, b + 1, "notbracket") - 1)))]
        ELSE [host |-> None, ip |-> FirstAddress(Split(line), 1)]

parse_host_ip(line) ==
    LET b == BracketAt(line)
        p == ParenAt(line)
    IN  IF b # 0
        THEN [host |-> host_from_tail(Strip(SubSeq(line, 1, b - 1))),
              ip |-> Some(Strip(SubSeq(line, b + 1,
                                       FirstNotIn(line, b + 1, "notbracket") - 1)))]
        ELSE IF p # 0
        THEN [host |-> strip_hop_prefix(Strip(SubSeq(line, 1, p - 1))),
              ip |-> Some(Strip(SubSeq(line, p + 1,
                                       FirstNotIn(line, p + 1, "notparen") - 1)))]
        ELSE [host |-> None, ip |-> FirstAddress(Split(line), 1)]

\* Mutant of hop_status: an RTT makes the hop ok before the line's text is read.
hop_status_RttFirst(line, rtts) ==
    LET low == LowerText(line)
    IN  IF rtts # <<>> THEN "ok"
        ELSE IF Contains(low, <<"t", "i", "m", "e", "d", " ", "o", "u", "t">>)
                \/ Contains(low, <<"t", "i", "m", "e", "o", "u", "t">>)
                \/ Contains(line, <<"*">>)
        THEN "timeout"
        ELSE "unknown"

hop_status(line, rtts) ==
    LET low == LowerText(line)
    IN  IF Contains(low, <<"t", "i", "m", "e", "d", " ", "o", "u", "t">>)
           \/ Contains(low, <<"t", "i", "m", "e", "o", "u", "t">>)
        THEN "timeout"
        ELSE IF Contains(line, <<"*">>) /\ rtts = <<>> THEN "timeout"
        ELSE IF rtts # <<>> THEN "ok"
        ELSE "unknown"

\* sum(rtts) / len(rtts), kept as the exact fraction num / (den * 10^d).
RECURSIVE MaxD(_)
MaxD(rtts) ==
    IF rtts = <<>> THEN 0
    ELSE LET m == MaxD(Tail(rtts)) IN IF Head(rtts).d > m THEN Head(rtts).d ELSE m

RECURSIVE SumAt(_, _)
SumAt(rtts, d) ==
    IF rtts = <<>> THEN 0 ELSE Head(rtts).n * Pow10(d - Head(rtts).d) + SumAt(Tail(rtts), d)

RttAvg(rtts) ==
    IF rtts = <<>> THEN None
    ELSE Some([num |-> SumAt(rtts, MaxD(rtts)), den |-> Len(rtts), d |-> MaxD(rtts)])

\* The dict parse_hops appends for one hop line.
HopRecord(line, digits) ==
    LET rtts == parse_rtts(line)
        hi == parse_host_ip(line)
    IN  [hop |-> IntOf(digits),
         hop_host |-> hi.host,
         hop_ip |-> hi.ip,
         rtt_ms1 |-> IF Len(rtts) > 0 THEN Some(rtts[1]) ELSE None,
         rtt_ms2 |-> IF Len(rtts) > 1 THEN Some(rtts[2]) ELSE None,
         rtt_ms3 |-> IF Len(rtts) > 2 THEN Some(rtts[3]) ELSE None,
         rtt_avg_ms |-> RttAvg(rtts),
         status |-> hop_status(line, rtts)]

\* int(m.group(1)) raises ValueError.
IntRaises(digits) == Len(digits) > IntMaxStrDigits

\* parse_hops: the loop over the lines; an exception leaves the loop and the function.
RECURSIVE ParseLines(_, _, _)
ParseLines(lines, i, hops) ==
    IF i > Len(lines) THEN [raised |-> FALSE, hops |-> hops]
    ELSE LET m == HopMatch(lines[i])
         IN  IF m = None THEN ParseLines(lines, i + 1, hops)
             ELSE IF IntRaises(m[1]) THEN [raised |-> TRUE, hops |-> <<>>]
             ELSE ParseLines(lines, i + 1, Append(hops, HopRecord(lines[i], m[1])))

parse_hops(output) == ParseLines(SplitLines(output), 1, <<>>)

\* ------------------------------------------------------------- the report
NoReport == [done |-> FALSE]

NoParse == [done |-> FALSE]
NoView == [done |-> FALSE]
NoAnalysis == [done |-> FALSE]
NoLoop == [iterations |-> 0, running |-> TRUE, crashed |-> FALSE]

InitSpans ==
    /\ rows = <<>>
    /\ max_gap_mult = 0
    /\ report = NoReport
    /\ text = <<>>
    /\ ntok = 0
    /\ parse = NoParse
    /\ trace_runs = <<>>
    /\ trace_hops = <<>>
    /\ trace_seq = 0
    /\ view = NoView
    /\ window = <<>>
    /\ analysis = NoAnalysis
    /\ clock = 0
    /\ loop = NoLoop

\* One more sample of the window: load_quality_data orders rows by ts_utc.
LoadRow ==
    /\ ~report.done
    /\ Len(rows) < MaxRows
    /\ \E gap \in SampleGaps, val \in MetricValues :
          LET ts == IF rows = <<>> THEN 0 ELSE rows[Len(rows)].ts + gap
          IN  rows' = Append(rows, [ts |-> ts, val |-> val])
    /\ UNCHANGED <<max_gap_mult, report, parseVars, routeVars, windowVars, loggerVars>>

\* main(): median gap of the window, the flag column, find_spans.
QualityReport ==
    /\ ~report.done
    /\ rows # <<>>
    /\ \E mult \in GapMults :
          LET median_gap == MedianGap(rows)
          IN  /\ max_gap_mult' = mult
              /\ report' = [done |-> TRUE,
                            median_gap |-> median_gap,
                            max_gap |-> MaxGap(median_gap, mult),
                            built |-> BuiltSpans(rows, median_gap, mult),
                            spans |-> find_spans(rows, median_gap, mult)]
    /\ UNCHANGED <<rows, parseVars, routeVars, windowVars, loggerVars>>

NextSpans == LoadRow \/ QualityReport

SpecSpans == InitSpans /\ [][NextSpans]_vars

\* A window of samples one second apart whose flags are T,T,F,T,T,T,F: flagged
\* samples carry a value at or above the threshold, the others a lower one or none.
ExampleFlags == <<TRUE, TRUE, FALSE, TRUE, TRUE, TRUE, FALSE>>

InitExample ==
    /\ \E vals \in [1..Len(ExampleFlags) -> MetricValues] :
          /\ \A i \in 1..Len(ExampleFlags) : HighFlag(vals[i]) = ExampleFlags[i]
          /\ rows = [i \in 1..Len(ExampleFlags) |-> [ts |-> 2 * (i - 1), val |-> vals[i]]]
    /\ max_gap_mult = 0
    /\ report = NoReport
    /\ text = <<>>
    /\ ntok = 0
    /\ parse = NoParse
    /\ trace_runs = <<>>
    /\ trace_hops = <<>>
    /\ trace_seq = 0
    /\ view = NoView
    /\ window = <<>>
    /\ analysis = NoAnalysis
    /\ clock = 0
    /\ loop = NoLoop

SpecExample == InitExample /\ [][QualityReport]_vars

\* --------------------------------------------------- the whole quality analysis
\* The frame of load_quality_data: rows [ts, latency_ms, jitter_ms, loss_pct] in ts
\* order, a metric NaN where the probe gave nothing. latency_ms is ping_avg_ms
\* with ping_ms where it is missing; the model draws the resulting value.
LatencyValues == {NaN, Num(1), Num(3)}
JitterValues == {NaN, Num(3)}
LossValues == {NaN, Num(3)}
WindowGaps == {2, 8}
WindowMults == {1, 3}

Metrics == {"latency_ms", "jitter_ms", "loss_pct"}

\* One column of the frame, and the rows [ts, val] find_spans reads for it.
Column(df, col) == [i \in 1..Len(df) |-> df[i][col]]
Series(df, col) == [i \in 1..Len(df) |-> [ts |-> df[i].ts, val |-> df[i][col]]]

\* series.dropna(), as plain values.
DropNa(series) ==
    LET present == SelectSeq(series, IsNum)
    IN  [i \in 1..Len(present) |-> Val(present[i])]

\* Series.quantile(pct / 100.0), linear interpolation between the two order
\* statistics around position (n - 1) * pct / 100; the value in hundredths.
Quantile(clean, pct) ==
    LET o == SortAsc(clean)
        h == (Len(o) - 1) * pct
        lo == h \div 100 + 1
        hi == IF h % 100 = 0 THEN lo ELSE lo + 1
    IN  Float(100 * o[lo] + (h % 100) * (o[hi] - o[lo]), 2)

\* percentile(): None for a series without values.
percentile(series, pct) ==
    IF DropNa(series) = <<>> THEN None ELSE Some(Quantile(DropNa(series), pct))

RECURSIVE MaxOf(_)
MaxOf(clean) ==
    IF Len(clean) = 1 THEN clean[1]
    ELSE LET m == MaxOf(Tail(clean)) IN IF clean[1] > m THEN clean[1] ELSE m

\* Mutant of describe_series: a series without values gets zero statistics.
describe_series_ZeroStats(series) ==
    LET clean == DropNa(series)
    IN  IF clean = <<>>
        THEN Some([median |-> Num(0), p95 |-> Some(Float(0, 2)),
                   p99 |-> Some(Float(0, 2)), max |-> Num(0)])
        ELSE Some([median |-> Median(clean), p95 |-> percentile(series, 95),
                   p99 |-> percentile(series, 99), max |-> Num(MaxOf(clean))])

\* describe_series: the empty dict {} (None here) for a series without values,
\* which format_stats prints as "no data"; else median, p95, p99 and max.
describe_series(series) ==
    LET clean == DropNa(series)
    IN  IF clean = <<>> THEN None
        ELSE Some([median |-> Median(clean), p95 |-> percentile(series, 95),
                   p99 |-> percentile(series, 99), max |-> Num(MaxOf(clean))])

\* The flag columns: high_latency, high_jitter, high_loss and their OR, any_issue.
FlagColumns ==
    [high_latency |-> "latency_ms", high_jitter |-> "jitter_ms", high_loss |-> "loss_pct"]

\* Mutant of Flag: any_issue asks for all three metrics to be high.
Flag_AnyIssueNeedsAll(row, flag_col) ==
    IF flag_col = "any_issue"
    THEN \A f \in DOMAIN FlagColumns : HighFlag(row[FlagColumns[f]])
    ELSE HighFlag(row[FlagColumns[flag_col]])

Flag(row, flag_col) ==
    IF flag_col = "any_issue"
    THEN \E f \in DOMAIN FlagColumns : HighFlag(row[FlagColumns[f]])
    ELSE HighFlag(row[FlagColumns[flag_col]])

\* The four flag columns of the frame, row by row.
FlagRows(df) ==
    [i \in 1..Len(df) |->
        [f \in DOMAIN FlagColumns \cup {"any_issue"} |-> Flag(df[i], f)]]

\* df[flag_col].sum()
FlagCount(df, flag_col) == Cardinality({i \in 1..Len(df) : Flag(df[i], flag_col)})

\* Mutant of SpanCalls: the combined series gets spans too.
SpanCalls_WithAnyIssue ==
    [l \in {"High latency", "High jitter", "Packet loss", "Any issue"} |->
        CASE l = "High latency" -> "latency_ms"
          [] l = "High jitter" -> "jitter_ms"
          [] l = "Packet loss" -> "loss_pct"
          [] l = "Any issue" -> "latency_ms"]

\* The calls of find_spans in main(): label |-> value column; the flag column of
\* each is the high_ flag of that value column.
SpanCalls ==
    [l \in {"High latency", "High jitter", "Packet loss"} |->
        CASE l = "High latency" -> "latency_ms"
          [] l = "High jitter" -> "jitter_ms"
          [] l = "Packet loss" -> "loss_pct"]

\* Mutant of Analysis: main() without its check for an empty frame, which then
\* fails on the missing column gap_s.
Analysis_NoEmptyCheck(df, mult) ==
    [done |-> TRUE, no_rows |-> FALSE, raised |-> df = <<>>,
     median_gap |-> MedianGap(df), flags |-> FlagRows(df),
     stats |-> [m \in (IF df = <<>> THEN {} ELSE Metrics) |->
                   describe_series(Column(df, m))],
     counts |-> [f \in (IF df = <<>> THEN {} ELSE DOMAIN FlagColumns \cup {"any_issue"})
                   |-> FlagCount(df, f)],
     spans |-> [l \in (IF df = <<>> THEN {} ELSE DOMAIN SpanCalls) |->
                   find_spans(Series(df, SpanCalls[l]), MedianGap(df), mult)]]

\* main(): "No rows found" and nothing else for an empty frame; else the median
\* gap, the statistics of the three metrics, the flag counts and the spans.
Analysis(df, mult) ==
    IF df = <<>>
    THEN [done |-> TRUE, no_rows |-> TRUE, raised |-> FALSE, median_gap |-> NaN,
          flags |-> <<>>, stats |-> <<>>, counts |-> <<>>, spans |-> <<>>]
    ELSE [done |-> TRUE, no_rows |-> FALSE, raised |-> FALSE,
          median_gap |-> MedianGap(df), flags |-> FlagRows(df),
          stats |-> [m \in Metrics |-> describe_series(Column(df, m))],
          counts |-> [f \in DOMAIN FlagColumns \cup {"any_issue"} |-> FlagCount(df, f)],
          spans |-> [l \in DOMAIN SpanCalls |->
                        find_spans(Series(df, SpanCalls[l]), MedianGap(df), mult)]]

InitWindow == InitSpans

\* One more sample of the window.
LoadSample ==
    /\ ~analysis.done
    /\ Len(window) < MaxSamples
    /\ \E gap \in WindowGaps, lat \in LatencyValues, jit \in JitterValues,
          loss \in LossValues :
          LET ts == IF window = <<>> THEN 0 ELSE window[Len(window)].ts + gap
          IN  window' = Append(window, [ts |-> ts, latency_ms |-> lat,
                                        jitter_ms |-> jit, loss_pct |-> loss])
    /\ UNCHANGED <<analysis, spanVars, parseVars, routeVars, loggerVars>>

\* One run of net_quality_report over the window, empty or not.
AnalyzeWindow ==
    /\ ~analysis.done
    /\ \E mult \in WindowMults : analysis' = Analysis(window, mult)
    /\ UNCHANGED <<window, spanVars, parseVars, routeVars, loggerVars>>

NextWindow == LoadSample \/ AnalyzeWindow

SpecWindow == InitWindow /\ [][NextWindow]_vars

\* -------------------------------------------------- the traceroute logger
\* What a traceroute tool writes, piece by piece: digits, blanks, line ends, a
\* round-trip time, the marks of an unanswered probe, an address in brackets.
Tokens ==
    { <<"0">>, <<"1">>, <<" ">>, <<"\n">>, <<"5", "m", "s">>, <<"*">>, <<"<">>,
      <<"T", "i", "m", "e", "o", "u", "t">>,
      <<"[", "1", ".", "1", ".", "1", ".", "1", "]">> }

\* A run of digits one longer than int() converts.
LongNumber == [i \in 1..(IntMaxStrDigits + 1) |-> "9"]

InitParse == InitSpans

\* The tool writes one more piece of output.
WriteToken ==
    /\ ~parse.done
    /\ ntok < MaxTokens
    /\ \E tok \in Tokens : text' = text \o tok
    /\ ntok' = ntok + 1
    /\ UNCHANGED <<parse, spanVars, routeVars, windowVars, loggerVars>>

\* The tool's output starts with an overlong number; one more piece may follow.
WriteLongNumber ==
    /\ ~parse.done
    /\ text = <<>>
    /\ ntok = 0
    /\ text' = LongNumber
    /\ ntok' = MaxTokens - 1
    /\ UNCHANGED <<parse, spanVars, routeVars, windowVars, loggerVars>>

\* main(): hops = parse_hops(output or "").
ParseOutput ==
    /\ ~parse.done
    /\ LET r == parse_hops(text)
       IN  parse' = [done |-> TRUE, raised |-> r.raised, hops |-> r.hops]
    /\ UNCHANGED <<text, ntok, spanVars, routeVars, windowVars, loggerVars>>

NextParse == WriteToken \/ WriteLongNumber \/ ParseOutput

SpecParse == InitParse /\ [][NextParse]_vars

\* ------------------------------------------- traceroute output, line by line
\* Lines as tracert and traceroute write them, and variations of them: with and
\* without round-trip times, the address in brackets, in parentheses or bare,
\* unanswered probes and a banner line.
LineTimedOut ==
    <<"7", " ", " ", "*", " ", "*", " ", "*", " ", " ", "R", "e", "q", "u", "e", "s",
      "t", " ", "t", "i", "m", "e", "d", " ", "o", "u", "t", ".">>
LineBracketOnly ==
    <<"5", " ", " ", "1", "0", ".", "0", ".", "0", ".", "1", " ", "[", "1", "0", ".",
      "0", ".", "0", ".", "1", "]">>
LineParenRtts ==
    <<"3", " ", " ", "1", "0", ".", "0", ".", "0", ".", "1", " ", "(", "1", "0", ".",
      "0", ".", "0", ".", "1", ")", " ", " ", "1", "2", " ", "m", "s", " ", " ", "1",
      "3", " ", "m", "s", " ", " ", "1", "1", " ", "m", "s">>
LineTracert ==
    <<" ", "1", " ", " ", "<", "1", " ", "m", "s", " ", " ", "<", "1", " ", "m", "s",
      " ", " ", "g", "w", ".", "l", "a", "n", " ", "[", "1", "9", "2", ".", "1", "6",
      "8", ".", "1", ".", "1", "]">>
LineParenAndBracket ==
    <<"2", " ", " ", "g", "w", " ", "(", "1", "0", ".", "1", ".", "2", ".", "3", ")",
      " ", "[", "1", "0", ".", "9", ".", "9", ".", "9", "]", " ">>
LineBareAddress ==
    <<"4", " ", " ", "1", "0", ".", "0", ".", "0", ".", "4", " ", " ", "5", " ", "m",
      "s">>
LineHostOnly ==
    <<"6", " ", " ", "g", "w", ".", "l", "a", "n", " ", " ", "5", " ", "m", "s">>
LineStarWithRtt ==
    <<"8", " ", " ", "*", " ", "5", " ", "m", "s", " ", "*">>
LineUpperTimeout ==
    <<"9", " ", " ", "g", "w", " ", "7", " ", "m", "s", " ", "T", "I", "M", "E", "O",
      "U", "T">>
LineBanner ==
    <<"T", "r", "a", "c", "i", "n", "g", " ", "r", "o", "u", "t", "e", " ", "t", "o",
      " ", "1", "0", ".", "0", ".", "0", ".", "9">>
LineMsInHost ==
    <<"1", " ", "a", " ", "m", "s", "n", ".", "l", "a", "n", " ", "[", "1", "0", ".",
      "0", ".", "0", ".", "1", "]">>
LineTwoWordHost ==
    <<"2", " ", "m", "y", " ", " ", "h", "o", "s", "t", " ", "[", "1", "0", ".", "0",
      ".", "0", ".", "2", "]">>
LineNoHost ==
    <<"3", " ", "[", "1", "0", ".", "0", ".", "0", ".", "3", "]">>
LineParenAndBare ==
    <<"4", " ", "(", "1", "0", ".", "0", ".", "0", ".", "4", ")", " ", "1", "0", ".",
      "0", ".", "0", ".", "5">>
LineBadThenGood ==
    <<"5", " ", "2", "5", "6", ".", "1", ".", "1", ".", "1", " ", "0", "1", ".", "1",
      ".", "1", ".", "1", " ", "1", "0", ".", "0", ".", "0", ".", "5", " ", "1", "0",
      ".", "0", ".", "0", ".", "6">>
LineEmptyParens ==
    <<"6", " ", "(", ")", " ", "[", "]", " ", "1", "0", ".", "0", ".", "0", ".", "6">>

ExampleLines ==
    { LineTimedOut, LineBracketOnly, LineParenRtts, LineTracert,
      LineParenAndBracket, LineBareAddress, LineHostOnly, LineStarWithRtt,
      LineUpperTimeout, LineBanner, LineMsInHost, LineTwoWordHost,
      LineNoHost, LineParenAndBare, LineBadThenGood, LineEmptyParens }

\* The captured output is one of the lines, or two of them.
InitLines ==
    /\ \E a \in ExampleLines, b \in ExampleLines \cup {<<>>} :
          text = IF b = <<>> THEN a ELSE a \o <<"\n">> \o b
    /\ rows = <<>>
    /\ max_gap_mult = 0
    /\ report = NoReport
    /\ ntok = 0
    /\ parse = NoParse
    /\ trace_runs = <<>>
    /\ trace_hops = <<>>
    /\ trace_seq = 0
    /\ view = NoView
    /\ window = <<>>
    /\ analysis = NoAnalysis
    /\ clock = 0
    /\ loop = NoLoop

SpecLines == InitLines /\ [][ParseOutput]_vars

\* ---------------------------------------------------------- net_trace_view.py
\* A sequence of records sorted ascending by the field key, equal keys in their
\* given order:
\* each element goes to the place its rank gives it.
SortBy(s, key) ==
    LET Rank(i) == Cardinality({j \in 1..Len(s) :
                        \/ s[j][key] < s[i][key]
                        \/ s[j][key] = s[i][key] /\ j < i}) + 1
    IN  [p \in 1..Len(s) |-> s[CHOOSE i \in 1..Len(s) : Rank(i) = p]]

\* load_trace_data, first query: ORDER BY ts_utc DESC. SQL leaves the order of
\* rows with equal ts_utc open, so this is the set of the possible results: each
\* starts with one of the latest runs and goes on with an order of the others.
RECURSIVE LoadRuns(_)
LoadRuns(runs) ==
    IF runs = <<>> THEN {<<>>}
    ELSE LET latest == {i \in 1..Len(runs) :
                            \A j \in 1..Len(runs) : runs[j].ts_utc <= runs[i].ts_utc}
             Without(i) == [k \in 1..(Len(runs) - 1) |->
                               IF k < i THEN runs[k] ELSE runs[k + 1]]
         IN  UNION {{<<runs[i]>> \o rest : rest \in LoadRuns(Without(i))} :
                       i \in latest}

\* load_trace_data, second query: trace_runs JOIN trace_hops, by ts_utc and hop.
RECURSIVE JoinFrom(_, _, _)
JoinFrom(runs, hops, i) ==
    IF i > Len(runs) THEN <<>>
    ELSE LET OfRun(h) == h.run_id = runs[i].id
             mine == SortBy(SelectSeq(hops, OfRun), "hop")
         IN  [k \in 1..Len(mine) |->
                 [run_id |-> runs[i].id, ts_utc |-> runs[i].ts_utc, hop |-> mine[k].hop,
                  hop_host |-> mine[k].hop_host, hop_ip |-> mine[k].hop_ip,
                  status |-> mine[k].status]]
             \o JoinFrom(runs, hops, i + 1)

LoadHops(runs, hops) == JoinFrom(SortBy(runs, "ts_utc"), hops, 1)

\* Mutant of hop_identity: the host name is tried before the timeout.
hop_identity_HostBeforeTimeout(row) ==
    IF row.hop_ip # None THEN row.hop_ip[1]
    ELSE IF row.hop_host # None THEN row.hop_host[1]
    ELSE IF row.status = "timeout" THEN "*"
    ELSE "?"

\* _hop_identity: the address, "*" for a timeout, the host name, or "?".
hop_identity(row) ==
    IF row.hop_ip # None THEN row.hop_ip[1]
    ELSE IF row.status = "timeout" THEN "*"
    ELSE IF row.hop_host # None THEN row.hop_host[1]
    ELSE "?"

\* build_route_keys: per run_id of the frame, the tuple of its hop identities by hop.
build_route_keys(df) ==
    [rid \in {df[i].run_id : i \in 1..Len(df)} |->
        LET OfRun(r) == r.run_id = rid
            ordered == SortBy(SelectSeq(df, OfRun), "hop")
        IN  [k \in 1..Len(ordered) |-> hop_identity(ordered[k])]]

\* A route key: a tuple of identities, or the NaN that Series.map leaves for a run
\* without rows in the frame (one object, so equal to itself as a dict key).
TupleKey(t) == [nan |-> FALSE, ids |-> t]
NaNKey == [nan |-> TRUE, ids |-> <<>>]

\* runs_sorted["id"].map(route_keys)
MapKey(route_keys, id) ==
    IF id \in DOMAIN route_keys THEN TupleKey(route_keys[id]) ELSE NaNKey

\* route_id_map, a dict in insertion order: a sequence of [key, id].
RouteIdOf(map, key) == (CHOOSE e \in {map[i] : i \in 1..Len(map)} : e.key = key).id

\* Mutant of KnownKey: the key is compared with the latest route only.
KnownKey_LatestOnly(map, key) == map # <<>> /\ map[Len(map)].key = key

\* key in route_id_map
KnownKey(map, key) == \E i \in 1..Len(map) : map[i].key = key

\* Mutant of NewRouteId: numbering from 0.
NewRouteId_FromZero(map) == Len(map)

\* len(route_id_map) + 1
NewRouteId(map) == Len(map) + 1

\* The loop of annotate_routes over the keys of the runs, oldest first.
RECURSIVE AnnotateFrom(_, _, _, _)
AnnotateFrom(keys, i, map, ids) ==
    IF i > Len(keys) THEN [route_id_map |-> map, route_ids |-> ids]
    ELSE IF KnownKey(map, keys[i])
    THEN AnnotateFrom(keys, i + 1, map, Append(ids, RouteIdOf(map, keys[i])))
    ELSE LET id == NewRouteId(map)
         IN  AnnotateFrom(keys, i + 1, Append(map, [key |-> keys[i], id |-> id]),
                          Append(ids, id))

\* sort_values("ts_utc") orders the runs oldest first; runs with equal ts_utc come
\* in an order that the results of LoadRuns range over.
annotate_routes(runs_df, route_keys) ==
    LET sorted == SortBy(runs_df, "ts_utc")
        keys == [i \in 1..Len(sorted) |-> MapKey(route_keys, sorted[i].id)]
        a == AnnotateFrom(keys, 1, <<>>, <<>>)
    IN  [runs_sorted |->
            [i \in 1..Len(sorted) |->
                [id |-> sorted[i].id, ts_utc |-> sorted[i].ts_utc,
                 hop_count |-> sorted[i].hop_count,
                 route_key |-> keys[i], route_id |-> a.route_ids[i]]],
         route_id_map |-> a.route_id_map]

\* print_route_changes, the listing "Routes (unique hop sequences)": the routes by
\* id with the number of their runs and hops. `len(key) if key else 0` raises
\* TypeError for the NaN key (a float, and truthy); the rows before it are printed.
ListingRaises(route_id_map) == \E i \in 1..Len(route_id_map) : route_id_map[i].key.nan

RouteListing(runs_sorted, route_id_map) ==
    LET by_id == SortBy(route_id_map, "id")
        stop == IF ListingRaises(by_id)
                THEN (CHOOSE i \in 1..Len(by_id) :
                         by_id[i].key.nan /\ \A j \in 1..(i - 1) : ~by_id[j].key.nan) - 1
                ELSE Len(by_id)
    IN  [i \in 1..stop |->
            [route_id |-> by_id[i].id,
             runs |-> Cardinality({k \in 1..Len(runs_sorted) :
                                     runs_sorted[k].route_id = by_id[i].id}),
             hops |-> Len(by_id[i].key.ids)]]

\* Mutant of SingleRoute: the walk is made whatever the number of routes.
SingleRoute_Never(route_id_map) == FALSE

\* if len(route_id_map) <= 1: "Route changes: none (single route in window)"
SingleRoute(route_id_map) == Len(route_id_map) <= 1

\* if row.route_id != prev_id, prev_id None before the first run
RouteChanged(row, prev_id) == prev_id = None \/ row.route_id # prev_id[1]

\* The walk over runs_sorted: one event [ts, from, to, key] per change, `from`
\* None for the "(initial)" line.
RECURSIVE ChangesFrom(_, _, _, _)
ChangesFrom(runs_sorted, i, prev_id, acc) ==
    IF i > Len(runs_sorted) THEN acc
    ELSE LET row == runs_sorted[i]
         IN  IF RouteChanged(row, prev_id)
             THEN ChangesFrom(runs_sorted, i + 1, Some(row.route_id),
                      Append(acc, [ts |-> row.ts_utc, from |-> prev_id,
                                   to |-> row.route_id, key |-> row.route_key]))
             ELSE ChangesFrom(runs_sorted, i + 1, prev_id, acc)

print_route_changes(runs_sorted, route_id_map) ==
    [raised |-> ListingRaises(route_id_map),
     routes |-> RouteListing(runs_sorted, route_id_map),
     changes |-> IF ListingRaises(route_id_map) \/ SingleRoute(route_id_map)
                 THEN <<>>
                 ELSE ChangesFrom(runs_sorted, 1, None, <<>>)]

\* ------------------------------------------------------ the traceroute store
\* Hop observations as parse_hops returns them: two answering routers, a hop that
\* timed out and a hop line without any signal.
HopA == [hop_host |-> None, hop_ip |-> Some("10.0.0.1"), status |-> "ok"]
HopB == [hop_host |-> None, hop_ip |-> Some("10.0.0.2"), status |-> "ok"]
HopT == [hop_host |-> None, hop_ip |-> None, status |-> "timeout"]
HopU == [hop_host |-> None, hop_ip |-> None, status |-> "unknown"]
HopH == [hop_host |-> Some("gw"), hop_ip |-> None, status |-> "ok"]
HopG == [hop_host |-> Some("gw"), hop_ip |-> None, status |-> "timeout"]
HopN == [hop_host |-> Some("gw"), hop_ip |-> Some("10.0.0.1"), status |-> "timeout"]

\* An observation with the hop number of its line.
At(n, o) ==
    [hop |-> n, hop_host |-> o.hop_host, hop_ip |-> o.hop_ip, status |-> o.status]

\* The hop lists of the runs: none (nothing parsed), paths of different lengths
\* with a common start, the same routers in another order, and output whose
\* lines came numbered in descending order.
Paths ==
    { <<>>,
      <<At(1, HopA)>>,
      <<At(1, HopA), At(2, HopB)>>,
      <<At(2, HopB), At(1, HopA)>>,
      <<At(1, HopB), At(2, HopA)>>,
      <<At(1, HopN), At(2, HopT), At(4, HopG)>>,
      <<At(1, HopA), At(2, HopH), At(3, HopU)>> }

InitRoutes == InitSpans

\* insert_run: one row of trace_runs and one row of trace_hops per hop, in one
\* transaction; the run's id is the next one of AUTOINCREMENT.
insert_run(runs, hop_rows, seq, ts, exit_code, hops) ==
    LET run_id == seq + 1
    IN  [trace_runs |-> Append(runs, [id |-> run_id, ts_utc |-> ts,
                                       exit_code |-> exit_code, hop_count |-> Len(hops)]),
         trace_hops |-> hop_rows \o
                     [k \in 1..Len(hops) |->
                         [run_id |-> run_id, hop |-> hops[k].hop,
                          hop_host |-> hops[k].hop_host,
                          hop_ip |-> hops[k].hop_ip, status |-> hops[k].status]],
         trace_seq |-> run_id]

\* A logger stores a run that completed. ts_utc is the logger's clock at the
\* start of the run; loggers that share the database can store runs with the
\* same ts_utc.
InsertRun ==
    /\ ~view.done
    /\ trace_seq < MaxRuns
    /\ \E hops \in Paths, tick \in {0, 1} :
          LET ts == IF clock = 0 THEN 1 ELSE clock + tick
              s == insert_run(trace_runs, trace_hops, trace_seq, ts, 0, hops)
          IN  /\ trace_runs' = s.trace_runs
              /\ trace_hops' = s.trace_hops
              /\ trace_seq' = s.trace_seq
              /\ clock' = ts
    /\ UNCHANGED <<view, loop, spanVars, parseVars, windowVars>>

\* net_trace_view main(): load, stop when there are no runs or no hop rows, else
\* build the route keys, number the routes and print the routes and their changes.
TraceView ==
    /\ ~view.done
    /\ \E runs_df \in LoadRuns(trace_runs) :
          LET df == LoadHops(trace_runs, trace_hops)
          IN  IF runs_df = <<>> \/ df = <<>>
              THEN view' = [done |-> TRUE, empty |-> TRUE, runs_sorted |-> <<>>,
                            route_id_map |-> <<>>, raised |-> FALSE,
                            routes |-> <<>>, changes |-> <<>>]
              ELSE LET a == annotate_routes(runs_df, build_route_keys(df))
                       p == print_route_changes(a.runs_sorted, a.route_id_map)
                   IN  view' = [done |-> TRUE, empty |-> FALSE,
                                runs_sorted |-> a.runs_sorted,
                                route_id_map |-> a.route_id_map,
                                raised |-> p.raised,
                                routes |-> p.routes, changes |-> p.changes]
    /\ UNCHANGED <<trace_runs, trace_hops, trace_seq, spanVars, parseVars, windowVars, loggerVars>>

NextRoutes == InsertRun \/ TraceView

SpecRoutes == InitRoutes /\ [][NextRoutes]_vars

\* ------------------------------------------------ the store under pruning
\* Mutant of prune_old: only the rows of trace_runs are deleted.
prune_old_RunsOnly(runs, hop_rows, cutoff) ==
    LET Kept(r) == ~(r.ts_utc < cutoff)
    IN  [trace_runs |-> SelectSeq(runs, Kept), trace_hops |-> hop_rows]

\* prune_old: in one transaction, delete the hops whose run is older than the
\* cutoff, then the runs older than the cutoff.
prune_old(runs, hop_rows, cutoff) ==
    LET old == {runs[i].id : i \in {j \in 1..Len(runs) : runs[j].ts_utc < cutoff}}
        KeptHop(h) == h.run_id \notin old
        Kept(r) == ~(r.ts_utc < cutoff)
    IN  [trace_runs |-> SelectSeq(runs, Kept), trace_hops |-> SelectSeq(hop_rows, KeptHop)]

\* A logger prunes the store; the cutoff is its clock less --keep-days.
PruneOld ==
    /\ \E cutoff \in 1..(clock + 1) :
          LET s == prune_old(trace_runs, trace_hops, cutoff)
          IN  /\ trace_runs' = s.trace_runs
              /\ trace_hops' = s.trace_hops
    /\ UNCHANGED <<trace_seq, view, clock, loop, spanVars, parseVars, windowVars>>

NextStore == InsertRun \/ PruneOld

SpecStore == InitRoutes /\ [][NextStore]_vars

\* ------------------------------------------------ the loop of the logger
\* What the tool wrote before it ended or was killed: nothing, one hop line,
\* two hop lines.
CapturedStdout ==
    { <<>>, LineBareAddress, LineBareAddress \o <<"\n">> \o LineTimedOut }
CapturedStderr == { <<>>, <<"e", "r", "r">> }

\* How an invocation of the tool can end: the tool is not on PATH, it cannot be
\* started, it ends by itself, or it is still running at the timeout.
ToolRuns ==
    {[kind |-> k, stdout |-> <<>>, stderr |-> <<>>, returncode |-> 0] :
         k \in {"not_found", "failed"}}
    \cup {[kind |-> "completed", stdout |-> o, stderr |-> <<>>, returncode |-> 0] :
             o \in CapturedStdout}
    \cup {[kind |-> "completed", stdout |-> o, stderr |-> e, returncode |-> 1] :
             o \in CapturedStdout, e \in CapturedStderr \ {<<>>}}
    \cup {[kind |-> "timeout", stdout |-> o, stderr |-> e, returncode |-> 0] :
             o \in CapturedStdout, e \in CapturedStderr}

\* The options of a logger process: platform.system(), --once and --keep-days
\* (0 when the option is not given).
Configs == [system : {"Windows", "Linux"}, once : BOOLEAN, keep_days : {0, 1}]

\* (stdout or "") + ("\n" + stderr if stderr else "")
JoinOutput(stdout, stderr) ==
    stdout \o (IF stderr # <<>> THEN <<"\n">> \o stderr ELSE <<>>)

\* run_traceroute: (output, exit_code, err) or an exception that leaves it. With
\* no tool on PATH _build_command returns the error, except on Windows, where
\* the start of the process fails. In the handler of TimeoutExpired e.stdout
\* and e.stderr are text on Windows, where subprocess.run() reads them with
\* communicate() after the kill, and bytes (None when nothing was captured)
\* elsewhere, so adding them to "" or "\n" raises TypeError inside the handler.
run_traceroute(system, inv) ==
    CASE inv.kind = "not_found" /\ system # "Windows" ->
            [raised |-> FALSE, output |-> None, exit_code |-> None, err |-> Some("not found")]
      [] inv.kind = "not_found" /\ system = "Windows" ->
            [raised |-> FALSE, output |-> None, exit_code |-> Some(-1), err |-> Some("failed")]
      [] inv.kind = "failed" ->
            [raised |-> FALSE, output |-> None, exit_code |-> Some(-1), err |-> Some("failed")]
      [] inv.kind = "completed" ->
            [raised |-> FALSE, output |-> Some(JoinOutput(inv.stdout, inv.stderr)),
             exit_code |-> Some(inv.returncode), err |-> None]
      [] inv.kind = "timeout" /\ (system = "Windows" \/ (inv.stdout = <<>> /\ inv.stderr = <<>>)) ->
            [raised |-> FALSE, output |-> Some(JoinOutput(inv.stdout, inv.stderr)),
             exit_code |-> Some(-1), err |-> Some("timeout")]
      [] OTHER ->
            [raised |-> TRUE, output |-> None, exit_code |-> None, err |-> None]

\* The loop ended by an exception that main() does not catch.
Crashed(config, inv) ==
    [iterations |-> loop.iterations + 1, running |-> FALSE, crashed |-> TRUE,
     config |-> config, tool_run |-> inv, seq_before |-> trace_seq]

\* The iteration ended; the loop goes on unless --once was given.
Slept(config, inv) ==
    [iterations |-> loop.iterations + 1, running |-> ~config.once, crashed |-> FALSE,
     config |-> config, tool_run |-> inv, seq_before |-> trace_seq]

\* One iteration of the loop of main(): run the tool; on an error without
\* output print it and sleep; else parse the output, store the run, prune when
\* --keep-days is given, and sleep. The interval between two runs is one tick.
LoggerIteration ==
    /\ loop.running
    /\ loop.iterations < MaxIterations
    /\ \E config \in (IF loop.iterations = 0 THEN Configs ELSE {loop.config}),
          inv \in ToolRuns :
          LET ts == clock + 1
              r == run_traceroute(config.system, inv)
          IN  /\ clock' = ts
              /\ IF r.raised
                 THEN /\ loop' = Crashed(config, inv)
                      /\ UNCHANGED <<trace_runs, trace_hops, trace_seq, text, parse>>
                 ELSE IF r.output = None /\ r.err # None
                 THEN /\ loop' = Slept(config, inv)
                      /\ UNCHANGED <<trace_runs, trace_hops, trace_seq, text, parse>>
                 ELSE /\ text' = (IF r.output = None THEN <<>> ELSE r.output[1])
                      /\ parse' = [done |-> TRUE, raised |-> parse_hops(text').raised,
                                   hops |-> parse_hops(text').hops]
                      /\ IF parse'.raised
                         THEN /\ loop' = Crashed(config, inv)
                              /\ UNCHANGED <<trace_runs, trace_hops, trace_seq>>
                         ELSE LET s == insert_run(trace_runs, trace_hops, trace_seq, ts,
                                                  r.exit_code[1], parse'.hops)
                                  kept == IF config.keep_days # 0
                                          THEN prune_old(s.trace_runs, s.trace_hops,
                                                         ts - config.keep_days)
                                          ELSE s
                              IN  /\ loop' = Slept(config, inv)
                                  /\ trace_runs' = kept.trace_runs
                                  /\ trace_hops' = kept.trace_hops
                                  /\ trace_seq' = s.trace_seq
    /\ UNCHANGED <<view, ntok, spanVars, windowVars>>

SpecLogger == InitRoutes /\ [][LoggerIteration]_vars

\* ------------------------------------------------- claims on find_spans
RECURSIVE SumSamples(_)
SumSamples(s) == IF s = <<>> THEN 0 ELSE Head(s).samples + SumSamples(Tail(s))

FlaggedRows == {i \in 1..Len(rows) : HighFlag(rows[i].val)}

StrictlyIncreasingTs == \A i \in 1..(Len(rows) - 1) : rows[i].ts < rows[i + 1].ts

\* C1: the sample counts of the spans find_spans returns add up to the number of
\* flagged samples, so every flagged sample is in exactly one span and no
\* unflagged sample is in any.
C1_SampleCountsCoverFlagged ==
    report.done => SumSamples(report.spans) = Cardinality(FlaggedRows)

\* C1 witness: a report with two spans, one of them merged from several samples,
\* over a window that also holds an unflagged sample.
C1_Witness ==
    /\ report.done
    /\ Len(report.spans) >= 2
    /\ \E i \in 1..Len(report.spans) : report.spans[i].samples >= 2
    /\ \E i \in 1..Len(rows) : ~HighFlag(rows[i].val)

\* C2 as stated: in creation order each span ends strictly before the next starts.
C2_StrictlyBeforeNext ==
    report.done =>
        \A i \in 1..(Len(report.built) - 1) :
            report.built[i].end < report.built[i + 1].start

\* C2 amended: in creation order each span starts no later than it ends and ends
\* no later than the next one starts; strictly earlier when the timestamps of the
\* window are strictly increasing.
C2_NotAfterNext ==
    report.done =>
        /\ \A i \in 1..Len(report.built) : report.built[i].start <= report.built[i].end
        /\ \A i \in 1..(Len(report.built) - 1) :
              /\ report.built[i].end <= report.built[i + 1].start
              /\ StrictlyIncreasingTs => report.built[i].end < report.built[i + 1].start

\* C2 witness: two spans of several samples each were built, and two spans
\* built one after the other meet at one timestamp.
C2_Witness ==
    /\ report.done
    /\ Len(report.built) >= 2
    /\ \E i \in 1..(Len(report.built) - 1) :
          /\ report.built[i].end = report.built[i + 1].start
          /\ report.built[i].samples >= 2

\* (peak or 0, duration) of a returned span, and the lexicographic order on it.
PeakOrZero(span) == Val(span.max)
LexGe(a, b) ==
    \/ PeakOrZero(a) > PeakOrZero(b)
    \/ /\ PeakOrZero(a) = PeakOrZero(b)
       /\ Val(a.duration_s) >= Val(b.duration_s)

\* C3: the returned list is sorted: each span's (peak or 0, duration) is
\* lexicographically at least that of the span after it.
C3_SortedByPeakThenDuration ==
    report.done =>
        \A i \in 1..(Len(report.spans) - 1) : LexGe(report.spans[i], report.spans[i + 1])

\* C3 witness: the sort moved a span: the first span returned is not the first
\* one built, and two returned spans share a peak and differ in duration.
C3_Witness ==
    /\ report.done
    /\ Len(report.spans) >= 2
    /\ report.spans[1] # WithDuration(report.built[1], report.median_gap)
    /\ \E i \in 1..(Len(report.spans) - 1) :
          /\ report.spans[i].max = report.spans[i + 1].max
          /\ report.spans[i].duration_s # report.spans[i + 1].duration_s

\* Two rows lie in one span of the result.
InSameSpan(i, j) ==
    \E k \in 1..Len(report.spans) :
        /\ report.spans[k].start <= rows[i].ts
        /\ rows[j].ts <= report.spans[k].end

\* C4: with a median gap of zero or none there is no gap tolerance: two
\* consecutive flagged samples a positive time apart are in different spans.
C4_NoToleranceAtZeroMedian ==
    (report.done /\ (~IsNum(report.median_gap) \/ Val(report.median_gap) = 0)) =>
        \A i \in 1..(Len(rows) - 1) :
            (HighFlag(rows[i].val) /\ HighFlag(rows[i + 1].val) /\ rows[i].ts < rows[i + 1].ts)
                => ~InSameSpan(i, i + 1)

\* ------------------------------------------------- claims on parse_hops
\* A line that begins with optional whitespace, an integer and a whitespace
\* character, and the integer it begins with (the sum of its digits' place values).
NumberFrom(line) == FirstNotIn(line, 1, "space")
NumberTo(line) == FirstNotIn(line, NumberFrom(line), "digit")
StartsWithNumber(line) ==
    /\ NumberTo(line) > NumberFrom(line)
    /\ NumberTo(line) <= Len(line)
    /\ IsSpace(line[NumberTo(line)])

RECURSIVE PlaceValue(_, _, _)
PlaceValue(line, from, to) ==
    IF from >= to THEN 0
    ELSE DigitVal(line[from]) * Pow10(to - from - 1) + PlaceValue(line, from + 1, to)

LeadingNumber(line) == PlaceValue(line, NumberFrom(line), NumberTo(line))

\* The hop lines of the captured text, in the order they appear.
HopLines == SelectSeq(SplitLines(text), StartsWithNumber)

Parsed == parse.done /\ ~parse.raised

\* C5: a hop without RTT samples has status timeout or unknown, and a hop with
\* at least one RTT sample has status ok.
C5_StatusFollowsRtts ==
    Parsed =>
        \A i \in 1..Len(parse.hops) :
            LET h == parse.hops[i]
            IN  /\ h.rtt_ms1 = None => h.status \in {"timeout", "unknown"}
                /\ h.rtt_ms1 # None => h.status = "ok"

\* C6: parse_hops raises nothing, and returns the empty list exactly when no line
\* of the text is a hop line.
C6_NeverRaisesEmptyIffNoHopLine ==
    parse.done =>
        /\ ~parse.raised
        /\ parse.hops = <<>> <=> HopLines = <<>>

\* C7: parse_hops emits one observation per hop line, in the order of the lines,
\* with the line's integer as its hop number, and nothing for any other line.
C7_OneObservationPerHopLine ==
    parse.done =>
        /\ ~parse.raised
        /\ Len(parse.hops) = Len(HopLines)
        /\ \A i \in 1..Len(parse.hops) : parse.hops[i].hop = LeadingNumber(HopLines[i])

\* C8 as stated: every hop number returned is positive and none occurs twice.
C8_PositiveAndUnique ==
    Parsed =>
        /\ \A i \in 1..Len(parse.hops) : parse.hops[i].hop > 0
        /\ \A i, j \in 1..Len(parse.hops) : i # j => parse.hops[i].hop # parse.hops[j].hop

\* C8 amended: every hop number returned is a non-negative integer, the value of
\* the number its line starts with; 0 is kept, and two observations carry the same
\* hop number exactly when their lines start with the same number.
C8_NumbersKeptAsWritten ==
    Parsed =>
        /\ Len(parse.hops) = Len(HopLines)
        /\ \A i \in 1..Len(parse.hops) :
              /\ parse.hops[i].hop \in Nat
              /\ parse.hops[i].hop = LeadingNumber(HopLines[i])
        /\ \A i, j \in 1..Len(parse.hops) :
              parse.hops[i].hop = parse.hops[j].hop
                  <=> LeadingNumber(HopLines[i]) = LeadingNumber(HopLines[j])

\* C8 witness: a returned list in which hop number 0 occurs twice.
C8_Witness ==
    /\ Parsed
    /\ \E i, j \in 1..Len(parse.hops) :
          i # j /\ parse.hops[i].hop = 0 /\ parse.hops[j].hop = 0

\* ---------------------------------------------- claims on the route numbering
\* The hop-identity tuple of a stored run: the identities of its trace_hops rows
\* in hop order, the empty tuple for a run without hop rows.
RunTuple(id) ==
    LET OfRun(h) == h.run_id = id
        mine == SortBy(SelectSeq(trace_hops, OfRun), "hop")
    IN  [k \in 1..Len(mine) |-> hop_identity(mine[k])]

Annotated == view.done /\ ~view.empty

\* The earliest annotated run with the same tuple as the i-th.
FirstSighting(i) ==
    CHOOSE j \in 1..i :
        /\ RunTuple(view.runs_sorted[j].id) = RunTuple(view.runs_sorted[i].id)
        /\ \A k \in 1..(j - 1) :
              RunTuple(view.runs_sorted[k].id) # RunTuple(view.runs_sorted[i].id)

TuplesUpTo(i) == {RunTuple(view.runs_sorted[j].id) : j \in 1..i}

\* C9: every stored run is annotated, and two runs of the batch have the same
\* RouteId exactly when their hop-identity tuples are equal; runs with different
\* hop counts have different RouteIds.
C9_SameIdIffSameTuple ==
    Annotated =>
        /\ {view.runs_sorted[i].id : i \in 1..Len(view.runs_sorted)}
               = {trace_runs[i].id : i \in 1..Len(trace_runs)}
        /\ \A i, j \in 1..Len(view.runs_sorted) :
              LET a == view.runs_sorted[i]
                  b == view.runs_sorted[j]
              IN  /\ a.route_id = b.route_id <=> RunTuple(a.id) = RunTuple(b.id)
                  /\ a.hop_count # b.hop_count => a.route_id # b.route_id

\* C9 witness: a route seen again after another one in between, and two runs
\* that start with the same hop and differ in length.
C9_Witness ==
    /\ Annotated
    /\ \E i, j, k \in 1..Len(view.runs_sorted) :
          /\ i < j /\ j < k
          /\ view.runs_sorted[i].route_id = view.runs_sorted[k].route_id
          /\ view.runs_sorted[i].route_id # view.runs_sorted[j].route_id
    /\ \E i, j \in 1..Len(view.runs_sorted) :
          LET a == RunTuple(view.runs_sorted[i].id)
              b == RunTuple(view.runs_sorted[j].id)
          IN  /\ Len(a) >= 1 /\ Len(b) > Len(a) /\ a[1] = b[1]
              /\ view.runs_sorted[i].route_id # view.runs_sorted[j].route_id

\* C10: the runs are numbered oldest first: the earliest run has RouteId 1, a run
\* whose tuple was not seen before gets the count of distinct tuples so far, a
\* later sighting gets the id of the first one, and the ids in use are 1..N.
C10_NumberedByFirstSighting ==
    Annotated =>
        /\ \A i \in 1..(Len(view.runs_sorted) - 1) :
              view.runs_sorted[i].ts_utc <= view.runs_sorted[i + 1].ts_utc
        /\ view.runs_sorted[1].route_id = 1
        /\ \A i \in 1..Len(view.runs_sorted) :
              IF FirstSighting(i) = i
              THEN view.runs_sorted[i].route_id = Cardinality(TuplesUpTo(i))
              ELSE view.runs_sorted[i].route_id
                       = view.runs_sorted[FirstSighting(i)].route_id
        /\ {view.runs_sorted[i].route_id : i \in 1..Len(view.runs_sorted)}
               = 1..Cardinality(TuplesUpTo(Len(view.runs_sorted)))
        /\ {view.route_id_map[i].id : i \in 1..Len(view.route_id_map)}
               = 1..Cardinality(TuplesUpTo(Len(view.runs_sorted)))

\* C10 witness: the first route numbered 1, a new one numbered 2, and the first
\* one seen again later under its number 1.
C10_Witness ==
    /\ Annotated
    /\ Len(view.runs_sorted) = 3
    /\ view.runs_sorted[1].route_id = 1
    /\ view.runs_sorted[2].route_id = 2
    /\ view.runs_sorted[3].route_id = 1
    /\ view.runs_sorted[1].ts_utc < view.runs_sorted[3].ts_utc

\* ------------------------------------------------ claims on the route changes
\* The change events after the "(initial)" one.
LaterChanges == SelectSeq(view.changes, LAMBDA e : e.from # None)

\* The runs, by position in chronological order, whose route differs from the
\* route of the run before.
RouteSwitches ==
    {i \in 2..Len(view.runs_sorted) :
        RunTuple(view.runs_sorted[i].id) # RunTuple(view.runs_sorted[i - 1].id)}

\* C11: a change event is recorded at a run exactly when its route differs from
\* the route of the run before it, with that run's timestamp, the earlier
\* run's RouteId as `from` and its own as `to`; no event for an unchanged route.
C11_ChangeExactlyWhenRouteDiffers ==
    Annotated =>
        /\ Len(LaterChanges) = Cardinality(RouteSwitches)
        /\ \A i \in RouteSwitches :
              \E k \in 1..Len(LaterChanges) :
                  /\ LaterChanges[k].ts = view.runs_sorted[i].ts_utc
                  /\ LaterChanges[k].from = Some(view.runs_sorted[i - 1].route_id)
                  /\ LaterChanges[k].to = view.runs_sorted[i].route_id

\* C12 as stated: every non-empty batch has the first run reported as the
\* "initial" event, without a from-route.
C12_FirstRunAlwaysInitial ==
    Annotated =>
        /\ view.changes # <<>>
        /\ view.changes[1].from = None
        /\ view.changes[1].ts = view.runs_sorted[1].ts_utc
        /\ view.changes[1].to = view.runs_sorted[1].route_id

\* A run of the batch without rows in trace_hops.
ZeroHopRunInBatch ==
    \E i \in 1..Len(view.runs_sorted) : RunTuple(view.runs_sorted[i].id) = <<>>

\* C12 amended: with two or more distinct routes and hop rows for every run, the
\* first run is reported as the one "initial" event, without a from-route; with a
\* single route no event is reported; with a run without hop rows in the batch
\* the route listing raises and no event is reported.
C12_InitialWhenSeveralRoutes ==
    Annotated =>
        /\ view.raised <=> ZeroHopRunInBatch
        /\ IF Cardinality(TuplesUpTo(Len(view.runs_sorted))) >= 2 /\ ~ZeroHopRunInBatch
           THEN /\ view.changes # <<>>
                /\ view.changes[1].from = None
                /\ view.changes[1].ts = view.runs_sorted[1].ts_utc
                /\ view.changes[1].to = view.runs_sorted[1].route_id
                /\ \A k \in 2..Len(view.changes) : view.changes[k].from # None
           ELSE view.changes = <<>>

\* C12 witness: a window with three routes, reported as the initial event and two
\* changes.
C12_Witness ==
    /\ Annotated
    /\ ~view.raised
    /\ Len(view.changes) = 3
    /\ view.changes[1].from = None
    /\ view.changes[2].from = Some(view.changes[1].to)

\* C13: a run without hops has the empty tuple as its key and a RouteId of its
\* own, which the view lists and tracks like any other route.
C13_ZeroHopRunTracked ==
    Annotated =>
        \A i \in 1..Len(view.runs_sorted) :
            view.runs_sorted[i].hop_count = 0 =>
                /\ view.runs_sorted[i].route_key = TupleKey(<<>>)
                /\ ~view.raised
                /\ \E k \in 1..Len(view.routes) :
                      /\ view.routes[k].route_id = view.runs_sorted[i].route_id
                      /\ view.routes[k].hops = 0

ExampleRunGap == rows[4].ts - rows[2].ts

\* C15 as stated: with max_gap at least one second and the gap between the two
\* flagged runs within it, the two runs are merged into one span.
C15_RunsMergeWithinTolerance ==
    (report.done /\ NumGe(report.max_gap, Num(2))
         /\ NumGe(report.max_gap, Num(ExampleRunGap)))
        => Len(report.spans) = 1

\* C15 amended: the two flagged runs stay two spans of 2 and 3 samples for every
\* max_gap of one second or more, also when the gap between them is within it.
C15_RunsStayApart ==
    (report.done /\ NumGe(report.max_gap, Num(2))) =>
        /\ Len(report.spans) = 2
        /\ {report.spans[1].samples, report.spans[2].samples} = {2, 3}
        /\ report.built[1].end = rows[2].ts
        /\ report.built[2].start = rows[4].ts

C15_Witness ==
    /\ report.done
    /\ Len(rows) = Len(ExampleFlags)
    /\ NumGe(report.max_gap, Num(ExampleRunGap))
    /\ Len(report.built) = 2

\* ------------------------------------------ claims on the walk of find_spans
\* The span (by creation order) that row i went into, for a flagged row i: the
\* last span of the walk over the rows up to i.
SpanOf(i) == Len(BuiltSpans(SubSeq(rows, 1, i), report.median_gap, max_gap_mult))

\* C19: with max_gap > 0, two consecutive flagged samples are in one span exactly
\* when they are at most max_gap apart; a larger gap closes the span at the
\* earlier sample and opens a span of one sample at the later one.
C19_SplitExactlyAboveMaxGap ==
    (report.done /\ NumGt(report.max_gap, Num(0))) =>
        \A i \in 1..(Len(rows) - 1) :
            (HighFlag(rows[i].val) /\ HighFlag(rows[i + 1].val)) =>
                LET gap == rows[i + 1].ts - rows[i].ts
                    upto == BuiltSpans(SubSeq(rows, 1, i + 1), report.median_gap,
                                       max_gap_mult)
                IN  /\ SpanOf(i) = SpanOf(i + 1) <=> gap <= Val(report.max_gap)
                    /\ report.built[SpanOf(i)].start <= rows[i].ts
                    /\ rows[i + 1].ts <= report.built[SpanOf(i + 1)].end
                    /\ gap > Val(report.max_gap) =>
                          /\ report.built[SpanOf(i)].end = rows[i].ts
                          /\ report.built[SpanOf(i + 1)].start = rows[i + 1].ts
                          /\ upto[Len(upto)].samples = 1

\* C19 witness: one pair of consecutive flagged samples further apart than
\* max_gap and one pair exactly max_gap apart.
C19_Witness ==
    /\ report.done
    /\ NumGt(report.max_gap, Num(0))
    /\ \E i, j \in 1..(Len(rows) - 1) :
          /\ HighFlag(rows[i].val) /\ HighFlag(rows[i + 1].val)
          /\ HighFlag(rows[j].val) /\ HighFlag(rows[j + 1].val)
          /\ rows[i + 1].ts - rows[i].ts > Val(report.max_gap)
          /\ rows[j + 1].ts - rows[j].ts = Val(report.max_gap)

\* C20: two flagged samples with an unflagged sample between them are never in
\* the same span, whatever max_gap is.
C20_UnflaggedAlwaysCloses ==
    report.done =>
        \A i, j, k \in 1..Len(rows) :
            (i < j /\ j < k /\ HighFlag(rows[i].val) /\ ~HighFlag(rows[j].val)
                 /\ HighFlag(rows[k].val)) =>
                /\ SpanOf(i) < SpanOf(k)
                /\ SpanOf(k) <= Len(report.built)
                /\ report.built[SpanOf(i)].end <= rows[j].ts
                /\ report.built[SpanOf(k)].start >= rows[j].ts

\* C20 witness: flagged, unflagged, flagged samples within the gap tolerance,
\* and with no tolerance limit at all.
C20_Witness ==
    /\ report.done
    /\ \E i \in 1..(Len(rows) - 2) :
          /\ HighFlag(rows[i].val) /\ ~HighFlag(rows[i + 1].val)
          /\ HighFlag(rows[i + 2].val)
          /\ NumGe(report.max_gap, Num(rows[i + 2].ts - rows[i].ts))
    /\ Len(report.built) >= 2

\* ------------------------------------------- claims on the quality analysis
Analysed == analysis.done /\ ~analysis.no_rows

\* The gaps between consecutive samples of the window, by position.
WindowGapAt(i) == window[i + 1].ts - window[i].ts

\* m is a median of the window's gaps: at most half of them lie below it and at
\* most half above it.
IsMedianOfGaps(m) ==
    LET n == Len(window) - 1
    IN  /\ 2 * Cardinality({i \in 1..n : WindowGapAt(i) < m}) <= n
        /\ 2 * Cardinality({i \in 1..n : WindowGapAt(i) > m}) <= n

\* The rows of the window at or above the threshold in column col.
HighRows(col) == {i \in 1..Len(window) : NumGe(window[i][col], Threshold)}

RECURSIVE SamplesIn(_)
SamplesIn(spans) ==
    IF spans = <<>> THEN 0 ELSE spans[1].samples + SamplesIn(Tail(spans))

\* C16 as stated: spans are computed for the four flag series, any-issue included.
C16_SpansForEveryFlagSeries ==
    Analysed =>
        DOMAIN analysis.spans = {"High latency", "High jitter", "Packet loss", "Any issue"}

\* C16 amended: spans are computed once for each of the three metric flag series
\* (high latency, high jitter, high loss) and not for any-issue, each with the
\* median gap of the whole window: the spans of a series count the flagged rows
\* of its metric, and a span of a single instant lasts the window's median gap.
C16_SpansForTheThreeMetrics ==
    Analysed =>
        /\ DOMAIN analysis.spans = {"High latency", "High jitter", "Packet loss"}
        /\ DOMAIN analysis.counts
               = {"high_latency", "high_jitter", "high_loss", "any_issue"}
        /\ analysis.counts["any_issue"]
               = Cardinality(HighRows("latency_ms") \cup HighRows("jitter_ms")
                                 \cup HighRows("loss_pct"))
        /\ Len(window) >= 2 =>
              IsNum(analysis.median_gap) /\ IsMedianOfGaps(Val(analysis.median_gap))
        /\ \A l \in DOMAIN analysis.spans :
              LET col == CASE l = "High latency" -> "latency_ms"
                           [] l = "High jitter" -> "jitter_ms"
                           [] l = "Packet loss" -> "loss_pct"
                           [] OTHER -> "latency_ms"
              IN  /\ SamplesIn(analysis.spans[l]) = Cardinality(HighRows(col))
                  /\ \A k \in 1..Len(analysis.spans[l]) :
                        LET sp == analysis.spans[l][k]
                        IN  /\ \E i \in HighRows(col) :
                                  window[i].ts = sp.start /\ NumGe(sp.max, window[i][col])
                            /\ (sp.start = sp.end /\ Len(window) >= 2) =>
                                  sp.duration_s = analysis.median_gap

\* C16 witness: a window whose gaps differ, with a one-sample span for one metric
\* and an any-issue count above every single metric's count.
C16_Witness ==
    /\ Analysed
    /\ Len(window) = 3
    /\ WindowGapAt(1) # WindowGapAt(2)
    /\ \E l \in DOMAIN analysis.spans : \E k \in 1..Len(analysis.spans[l]) :
          analysis.spans[l][k].samples = 1
    /\ \A f \in {"high_latency", "high_jitter", "high_loss"} :
          analysis.counts["any_issue"] > analysis.counts[f]

\* C17: on an empty window the analysis raises nothing and its result is empty:
\* no statistics, no span list, and find_spans gives the empty list for the
\* series of every metric.
C17_EmptyWindowEmptyResult ==
    (analysis.done /\ window = <<>>) =>
        /\ ~analysis.raised
        /\ analysis.no_rows
        /\ DOMAIN analysis.stats = {}
        /\ DOMAIN analysis.spans = {}
        /\ \A col \in Metrics, mult \in WindowMults :
              find_spans(Series(window, col), analysis.median_gap, mult) = <<>>

C17_Witness == analysis.done /\ window = <<>>

\* The values present in a column of the window.
Present(col) == {Val(window[i][col]) : i \in {j \in 1..Len(window) : IsNum(window[j][col])}}

\* C18: a metric without any value has no statistics ("no data"), never zero
\* ones, and every metric with values has its statistics all the same: the
\* maximum of its values and a median, p95 and p99 within their range.
C18_NoDataForMissingMetric ==
    Analysed =>
        /\ DOMAIN analysis.stats = Metrics
        /\ \A m \in Metrics :
              IF Present(m) = {} THEN analysis.stats[m] = None
              ELSE /\ analysis.stats[m] # None
                   /\ LET st == analysis.stats[m][1]
                          lo == CHOOSE v \in Present(m) : \A w \in Present(m) : v <= w
                          hi == CHOOSE v \in Present(m) : \A w \in Present(m) : v >= w
                      IN  /\ st.max = Num(hi)
                          /\ NumGe(st.median, Num(lo)) /\ NumGe(Num(hi), st.median)
                          /\ st.p95 # None /\ st.p99 # None
                          /\ 100 * Val(st.median) <= st.p95[1].n
                          /\ st.p95[1].n <= st.p99[1].n
                          /\ st.p99[1].n <= 100 * hi

\* C18 witness: a window in which jitter has no value at all while latency
\* has different values.
C18_Witness ==
    /\ Analysed
    /\ analysis.stats["jitter_ms"] = None
    /\ analysis.stats["latency_ms"] # None
    /\ Cardinality(Present("latency_ms")) = 2

\* ------------------------------------ claims on span durations and peaks
\* C21: a span's duration is end - start when that is positive, else the median
\* gap, or 0 when there is no median gap; it is never negative.
C21_DurationFromMedianOrZero ==
    report.done =>
        \A k \in 1..Len(report.spans) :
            LET sp == report.spans[k]
                dur == sp.end - sp.start
            IN  /\ sp.duration_s =
                      (IF dur > 0 THEN Num(dur)
                       ELSE IF IsNum(report.median_gap) THEN report.median_gap
                       ELSE Num(0))
                /\ NumGe(sp.duration_s, Num(0))

\* The flagged rows that went into the k-th span created.
RowsOfSpan(k) == {i \in 1..Len(rows) : HighFlag(rows[i].val) /\ SpanOf(i) = k}

\* C22: the peak of a span is the greatest value among the samples merged into
\* it, and it is present whenever one of them carries a value.
C22_PeakIsMaxOfMerged ==
    report.done =>
        /\ \A k \in 1..Len(report.built) :
              /\ Cardinality(RowsOfSpan(k)) = report.built[k].samples
              /\ (\E i \in RowsOfSpan(k) : IsNum(rows[i].val)) => IsNum(report.built[k].max)
              /\ \E i \in RowsOfSpan(k) : rows[i].val = report.built[k].max
              /\ \A i \in RowsOfSpan(k) : NumGe(report.built[k].max, rows[i].val)
        /\ \A k \in 1..Len(report.spans) :
              \E j \in 1..Len(report.built) :
                  /\ report.built[j].start = report.spans[k].start
                  /\ report.built[j].max = report.spans[k].max

\* C22 witness: a span of several samples whose peak is not its first sample's
\* value.
C22_Witness ==
    /\ report.done
    /\ \E k \in 1..Len(report.built) :
          /\ report.built[k].samples >= 3
          /\ \E i \in RowsOfSpan(k) :
                /\ rows[i].ts = report.built[k].start
                /\ \A j \in RowsOfSpan(k) : i <= j
                /\ NumLt(rows[i].val, report.built[k].max)

\* ------------------------------------------------ claims on the flag series
\* A metric's value of a sample is present and at or above the threshold.
Reaches(i, col) == IsNum(window[i][col]) /\ Val(window[i][col]) >= Val(Threshold)

\* C27: each per-metric flag of a sample is true exactly when the metric's value
\* is present and at or above its threshold, and any_issue exactly when one of
\* the three flags is true.
C27_FlagsFollowThresholds ==
    Analysed =>
        /\ Len(analysis.flags) = Len(window)
        /\ \A i \in 1..Len(window) :
              /\ analysis.flags[i]["high_latency"] <=> Reaches(i, "latency_ms")
              /\ analysis.flags[i]["high_jitter"] <=> Reaches(i, "jitter_ms")
              /\ analysis.flags[i]["high_loss"] <=> Reaches(i, "loss_pct")
              /\ analysis.flags[i]["any_issue"] <=>
                    \/ analysis.flags[i]["high_latency"]
                    \/ analysis.flags[i]["high_jitter"]
                    \/ analysis.flags[i]["high_loss"]

\* C27 witness: a sample with one metric missing, one below and one at or above
\* the threshold, flagged as an issue.
C27_Witness ==
    /\ Analysed
    /\ \E i \in 1..Len(window) :
          /\ window[i]["latency_ms"] = Num(1)
          /\ window[i]["jitter_ms"] = NaN
          /\ window[i]["loss_pct"] = Num(3)
          /\ analysis.flags[i]["any_issue"]
          /\ ~analysis.flags[i]["high_latency"]

\* C28: in the three span lists of the report every span's peak is present and
\* at or above the threshold.
C28_PeakReachesThreshold ==
    Analysed =>
        \A l \in DOMAIN analysis.spans :
            \A k \in 1..Len(analysis.spans[l]) :
                /\ IsNum(analysis.spans[l][k].max)
                /\ Val(analysis.spans[l][k].max) >= Val(Threshold)

\* C28 witness: a window with missing and low values next to a span.
C28_Witness ==
    /\ Analysed
    /\ analysis.spans["High latency"] # <<>>
    /\ \E i, j \in 1..Len(window) :
          window[i]["latency_ms"] = NaN /\ window[j]["latency_ms"] = Num(1)

\* ------------------------------------------ claims on the fields of a hop line
\* c is the letter l in either case.
SameLetter(c, l) ==
    \/ c = l
    \/ <<c, l>> \in {<<"T", "t">>, <<"I", "i">>, <<"M", "m">>, <<"E", "e">>,
                     <<"D", "d">>, <<"O", "o">>, <<"U", "u">>}

\* The line contains the word, in any letter case.
HasWord(line, word) ==
    \E p \in 1..(Len(line) - Len(word) + 1) :
        \A k \in 1..Len(word) : SameLetter(line[p + k - 1], word[k])

SaysTimeout(line) ==
    \/ HasWord(line, <<"t", "i", "m", "e", "d", " ", "o", "u", "t">>)
    \/ HasWord(line, <<"t", "i", "m", "e", "o", "u", "t">>)

HasStar(line) == \E p \in 1..Len(line) : line[p] = "*"

\* Hop i of the parsed output has at least one RTT sample.
HasRtt(i) == parse.hops[i].rtt_ms1 # None

\* Every hop line of the text gave one hop record.
ParsedLines == Parsed /\ Len(parse.hops) = Len(HopLines)

\* C23: a hop's status is timeout when its line says "timed out" or "timeout" in
\* any letter case, or has a '*' and no RTT; otherwise ok when it has an RTT;
\* otherwise unknown. The line "7  * * *  Request timed out." is a timeout
\* without RTTs and "5  10.0.0.1 [10.0.0.1]" is unknown.
C23_StatusOrder ==
    Parsed =>
        /\ Len(parse.hops) = Len(HopLines)
        /\ \A i \in 1..Len(parse.hops) :
              parse.hops[i].status =
                  IF SaysTimeout(HopLines[i]) \/ (HasStar(HopLines[i]) /\ ~HasRtt(i))
                  THEN "timeout"
                  ELSE IF HasRtt(i) THEN "ok" ELSE "unknown"
        /\ (text = LineTimedOut =>
               parse.hops[1].status = "timeout" /\ ~HasRtt(1))
        /\ (text = LineBracketOnly => parse.hops[1].status = "unknown")

\* C23 witness: one output with a line that has an RTT and says TIMEOUT, parsed
\* as a timeout, and a line that has an RTT and a '*', parsed as ok.
C23_Witness ==
    /\ ParsedLines
    /\ \E i, j \in 1..Len(parse.hops) :
          /\ HasRtt(i) /\ SaysTimeout(HopLines[i]) /\ parse.hops[i].status = "timeout"
          /\ HasRtt(j) /\ HasStar(HopLines[j]) /\ parse.hops[j].status = "ok"

\* The last character of the line that is not whitespace, 0 if there is none.
LastInk(line) ==
    LET ink == {i \in 1..Len(line) : ~IsSpace(line[i])}
    IN  IF ink = {} THEN 0 ELSE CHOOSE i \in ink : \A j \in ink : i >= j

\* Where the bracketed token at the end of the line opens: the leftmost "[" with
\* a non-empty text free of "]" between it and a "]" that ends the line. 0 if
\* the line has no such token.
EndBracket(line) ==
    LET e == LastInk(line)
        open == {p \in 1..(e - 2) : /\ line[p] = "["
                                    /\ \A k \in (p + 1)..(e - 1) : line[k] # "]"}
    IN  IF e = 0 THEN 0
        ELSE IF line[e] # "]" \/ open = {} THEN 0
        ELSE CHOOSE p \in open : \A q \in open : p <= q

InBracket(line) == Strip(SubSeq(line, EndBracket(line) + 1, LastInk(line) - 1))

\* q closes a parenthesized token that opens at p.
ClosesParen(line, p, q) ==
    /\ line[p] = "(" /\ line[q] = ")" /\ q >= p + 2
    /\ \A k \in (p + 1)..(q - 1) : line[k] # ")"

\* Where the first parenthesized token of the line opens, 0 if there is none.
FirstParen(line) ==
    LET open == {p \in 1..Len(line) : \E q \in 1..Len(line) : ClosesParen(line, p, q)}
    IN  IF open = {} THEN 0 ELSE CHOOSE p \in open : \A q \in open : p <= q

InParen(line) ==
    LET p == FirstParen(line)
    IN  Strip(SubSeq(line, p + 1, (CHOOSE q \in 1..Len(line) : ClosesParen(line, p, q)) - 1))

\* The whitespace-delimited tokens of the line that are address literals.
AddressTokens(line) == SelectSeq(Split(line), ValidIpAddress)

\* C24: the address of a hop is the inside of the bracketed token at the end of
\* its line; without one, the inside of the first parenthesized token; without
\* one, the first whitespace-delimited token that is an address literal, and
\* the host name is then None; without one, address and host name are None.
C24_AddressPriority ==
    Parsed =>
        /\ Len(parse.hops) = Len(HopLines)
        /\ \A i \in 1..Len(parse.hops) :
              LET line == HopLines[i]
                  h == parse.hops[i]
              IN  IF EndBracket(line) # 0 THEN h.hop_ip = Some(InBracket(line))
                  ELSE IF FirstParen(line) # 0 THEN h.hop_ip = Some(InParen(line))
                  ELSE IF AddressTokens(line) # <<>>
                  THEN h.hop_ip = Some(AddressTokens(line)[1]) /\ h.hop_host = None
                  ELSE h.hop_ip = None /\ h.hop_host = None

\* C24 witness: one output with a line that has a parenthesized and a bracketed
\* token, and a line that has several bare address literals and invalid ones.
C24_Witness ==
    /\ ParsedLines
    /\ \E i, j \in 1..Len(parse.hops) :
          /\ EndBracket(HopLines[i]) # 0 /\ FirstParen(HopLines[i]) # 0
          /\ parse.hops[i].hop_ip = Some(InBracket(HopLines[i]))
          /\ InBracket(HopLines[i]) # InParen(HopLines[i])
          /\ EndBracket(HopLines[j]) = 0 /\ FirstParen(HopLines[j]) = 0
          /\ Len(AddressTokens(HopLines[j])) >= 2
          /\ Len(Split(HopLines[j])) > Len(AddressTokens(HopLines[j])) + 1
          /\ parse.hops[j].hop_ip = Some(AddressTokens(HopLines[j])[1])

\* The text that precedes the bracketed token at the end of the line.
BeforeBracket(line) == SubSeq(line, 1, EndBracket(line) - 1)

\* A text without its first whitespace-delimited token: the tokens that follow
\* it, None if there is none.
WithoutFirstToken(t) ==
    IF Len(Split(t)) <= 1 THEN None ELSE Some(JoinSpace(Tail(Split(t))))

\* Where " ms" occurs in a text.
MsAt(t) == {p \in 1..(Len(t) - 2) : SubSeq(t, p, p + 2) = <<" ", "m", "s">>}

\* The text after the last " ms" of a text, None if nothing but whitespace
\* follows it.
AfterLastMs(t) ==
    LET p == CHOOSE x \in MsAt(t) : \A y \in MsAt(t) : x >= y
        rest == Strip(SubSeq(t, p + 3, Len(t)))
    IN  IF rest = <<>> THEN None ELSE Some(rest)

\* C25 as stated: with a bracketed token at the end of the line the host name
\* is the text before the bracket without its leading hop-number token.
C25_HostIsTextBeforeBracket ==
    Parsed =>
        /\ Len(parse.hops) = Len(HopLines)
        /\ \A i \in 1..Len(parse.hops) :
              EndBracket(HopLines[i]) # 0 =>
                  parse.hops[i].hop_host = WithoutFirstToken(BeforeBracket(HopLines[i]))

\* C25: with a bracketed token at the end of the line the host name is what
\* follows the last " ms" of the text before the bracket (None if nothing
\* follows it) and, when that text has no " ms", the text before the bracket
\* without its leading hop-number token.
C25_HostFollowsLastMs ==
    Parsed =>
        /\ Len(parse.hops) = Len(HopLines)
        /\ \A i \in 1..Len(parse.hops) :
              EndBracket(HopLines[i]) # 0 =>
                  parse.hops[i].hop_host =
                      IF MsAt(BeforeBracket(HopLines[i])) # {}
                      THEN AfterLastMs(BeforeBracket(HopLines[i]))
                      ELSE WithoutFirstToken(BeforeBracket(HopLines[i]))

\* C25 witness: a line with RTTs before the host name and the address in
\* brackets at its end, and the host name is what follows the last RTT.
C25_Witness ==
    /\ ParsedLines
    /\ \E i \in 1..Len(parse.hops) :
          /\ EndBracket(HopLines[i]) # 0
          /\ HasRtt(i)
          /\ MsAt(BeforeBracket(HopLines[i])) # {}
          /\ parse.hops[i].hop_host = Some(<<"g", "w", ".", "l", "a", "n">>)

\* ------------------------------------------------ claims on the hop identities
\* The stored hops of a run.
HopsOf(id) == {k \in 1..Len(trace_hops) : trace_hops[k].run_id = id}

\* The identity of a stored hop by the priority of the route key.
IdentityOf(h) ==
    CASE h.hop_ip # None -> h.hop_ip[1]
      [] h.hop_ip = None /\ h.status = "timeout" -> "*"
      [] h.hop_ip = None /\ h.status # "timeout" /\ h.hop_host # None -> h.hop_host[1]
      [] OTHER -> "?"

\* The route key of an annotated run is a tuple whose entries are the
\* identities of the run's hops, one entry per hop, by increasing hop number.
KeyFollowsHops(r) ==
    /\ ~r.route_key.nan
    /\ Len(r.route_key.ids) = Cardinality(HopsOf(r.id))
    /\ \E at \in [1..Len(r.route_key.ids) -> HopsOf(r.id)] :
          /\ \A a, b \in DOMAIN at : a < b => trace_hops[at[a]].hop < trace_hops[at[b]].hop
          /\ \A a \in DOMAIN at : r.route_key.ids[a] = IdentityOf(trace_hops[at[a]])

\* C26: each position of a run's route key is the identity of one hop of the
\* run: its address if present, else "*" if its status is timeout, else its
\* host name if present, else "?"; one entry per hop, in increasing hop order.
C26_KeyIsIdentitiesInHopOrder ==
    Annotated =>
        \A i \in 1..Len(view.runs_sorted) :
            HopsOf(view.runs_sorted[i].id) # {} => KeyFollowsHops(view.runs_sorted[i])

\* C26 witness: a run stored with descending hop numbers whose key is in hop
\* order, and a run with a timed-out hop that has a host name, a timed-out hop
\* that has an address and a host name, and a run with a host name only.
C26_Witness ==
    /\ Annotated
    /\ \E i, j, l \in 1..Len(view.runs_sorted) :
          /\ \E a, b \in HopsOf(view.runs_sorted[i].id) :
                a < b /\ trace_hops[a].hop > trace_hops[b].hop
          /\ view.runs_sorted[i].route_key.ids = <<"10.0.0.1", "10.0.0.2">>
          /\ view.runs_sorted[j].route_key.ids = <<"10.0.0.1", "*", "*">>
          /\ \E a \in HopsOf(view.runs_sorted[j].id) :
                trace_hops[a].hop_host # None /\ trace_hops[a].hop_ip = None
          /\ view.runs_sorted[l].route_key.ids = <<"10.0.0.1", "gw", "?">>

\* ------------------------------------------------ claims on the store
\* The stored hops that carry a run id.
HopRowsOf(id) == {k \in 1..Len(trace_hops) : trace_hops[k].run_id = id}

\* C29: every row of trace_hops refers to a row of trace_runs, and the hop_count
\* of every run is the number of trace_hops rows with its id.
C29_HopsBelongToRuns ==
    /\ \A k \in 1..Len(trace_hops) :
          \E i \in 1..Len(trace_runs) : trace_runs[i].id = trace_hops[k].run_id
    /\ \A i \in 1..Len(trace_runs) :
          trace_runs[i].hop_count = Cardinality(HopRowsOf(trace_runs[i].id))

\* C29 witness: runs were pruned, and of the runs that are left one has several
\* hops and one has none.
C29_Witness ==
    /\ trace_seq = MaxRuns
    /\ Len(trace_runs) = 2
    /\ trace_runs[1].id > 1
    /\ trace_runs[1].hop_count >= 2
    /\ trace_runs[2].hop_count = 0

\* ------------------------------------------------ claims on the logger loop
\* The output the tool had written when the invocation ended.
CapturedSoFar ==
    IF loop.tool_run.stderr = <<>> THEN loop.tool_run.stdout
    ELSE loop.tool_run.stdout \o <<"\n">> \o loop.tool_run.stderr

\* The last iteration stored exactly one run, with the hops of the output.
StoredOneRun ==
    /\ trace_seq = loop.seq_before + 1
    /\ \E i \in 1..Len(trace_runs) :
          /\ trace_runs[i].id = trace_seq
          /\ loop.tool_run.kind = "timeout" => trace_runs[i].exit_code = -1
          /\ text = CapturedSoFar
          /\ trace_runs[i].hop_count = Len(parse_hops(text).hops)
          /\ Cardinality(HopRowsOf(trace_seq)) = trace_runs[i].hop_count

\* C30: an iteration of the loop stores exactly one run when the invocation
\* returned output, a timed-out invocation included, which is stored with exit
\* code -1 and the hops of the output captured so far; it stores no run when
\* the tool was not found or failed to start, and the loop then goes on.
C30_OneRunPerReturnedOutput ==
    loop.iterations > 0 =>
        /\ ~loop.crashed
        /\ IF loop.tool_run.kind \in {"completed", "timeout"}
           THEN StoredOneRun
           ELSE trace_seq = loop.seq_before

=============================================================================
